---- MODULE Spec2Model ----
(***************************************************************************)
(* Fibonacci alerts dashboard: the Dashboard store (per-symbol level       *)
(* arrays, alert log), one AssetChart (bar buffer, last price, RSI values, *)
(* the level array it was rendered with) and the effects that connect      *)
(* them: hydration of missing level prices, the alert evaluator and the    *)
(* asynchronous delivery of alerts to POST /alert.                         *)
(*                                                                         *)
(* Prices are integers in thousandths of the quote unit and ratios are     *)
(* integers in thousandths, so that low + ratio*range is exact.  A JS      *)
(* null/undefined is the empty sequence None and a present value v is the  *)
(* one-element sequence <<v>>.                                             *)
(***************************************************************************)
EXTENDS Integers, Sequences, FiniteSets, TLC

VARIABLES
  perSymFib,      \* Dashboard state: the level array of the charted symbol
  timeframe,      \* Dashboard state: global timeframe
  useHaRsi,       \* Dashboard state: process-wide RSI source toggle
  alerts,         \* Dashboard state: the alert log, most recent first
  fibLines,       \* AssetChart prop: the level array of the last committed render
  bars,           \* AssetChart state: bar buffer
  lastPrice,      \* AssetChart state: current price
  rsi,            \* AssetChart state: standard-close RSI
  haRsi,          \* AssetChart state: Heikin-Ashi-close RSI
  fetches,        \* the outstanding historical fetches: the timeframe each asked for
  loadPc,         \* position of a resolved load() continuation between renders
  dirty,          \* effects an update issued by an effect leaves to the next render
  batchedUpdates, \* build property: setState calls after an await are batched
  pending,        \* POST /alert requests in flight
  nAlerts,        \* number of alerts emitted by the evaluator so far
  clock,          \* Date.now() as a logical clock: one tick per onAlert call
  evalRun,        \* whether the last render ran the alerts effect, and what it emitted
  alerted,        \* per level: side of the close at its last alert, if not left since
  hydrations,     \* upstream hydration updates since the last external event
  rIn,            \* resolver check: the inputs handed to getLinePrice
  rOut,           \* resolver check: the price getLinePrice returned
  loadError,      \* load() caught and logged an error, and no render followed yet
  plMap,          \* priceLinesRef: the price of the price line of each level id that has one
  dragging,       \* draggingRef: { active, id }
  pan,            \* chart option handleScroll.pressedMouseMove
  shield,         \* drag shield displayed and catching pointer events
  tip,            \* tooltip displayed
  snapLine,       \* snap marker displayed
  event,          \* the pointer event or animation frame handled last
  lastSnap,       \* the last drag write of the latest drag: its snapped price, and
                  \* whether it was the 1st or a later write since the last render
  storage,        \* localStorage: the entry under each of LS_KEYS
  booted,         \* the Dashboard state its useState initialisers produced
  relay,          \* the relay server: its environment and the requests it received
  tts,            \* the TTS toggle, the alerts in flight with the onAlert they
                  \* captured, the utterance queue of the speech synthesiser and
                  \* the last call of pushAlert
  view            \* the time scale of the chart: Date.now(), manualZoomRef, the
                  \* last manual zoom or pan and the last call of allowAutoCenter

vars == <<perSymFib, timeframe, useHaRsi, alerts, fibLines, bars, lastPrice,
          rsi, haRsi, fetches, loadPc, dirty, batchedUpdates, pending,
          nAlerts, clock, evalRun, alerted, hydrations, rIn, rOut,
          loadError, plMap, dragging, pan, shield, tip, snapLine, event, lastSnap,
          storage, booted, relay, tts, view>>

---------------------------------------------------------------------------
(* Bounds of the model *)

MaxBars   == 2    \* longest bar buffer explored
MaxHist   == 2    \* longest history array a fetch returns
MaxFetch  == 1    \* outstanding historical fetches
MaxAlerts == 2    \* alerts emitted in one behaviour
MaxPush   == 5    \* pushes explored on a pre-filled alert log

(* Program constants *)

WindowN      == 120
AlertCap     == 200
DefaultThreshold == 50
Cooldown     == 1200

None == << >>
Some(v) == << v >>
IsNull(x) == x = None
Val(x) == x[1]

\* JS ToNumber on a nullable number: null compares as 0
ToNumber(x) == IF IsNull(x) THEN 0 ELSE Val(x)

Min2(a, b) == IF a < b THEN a ELSE b

Symbol == "XRPUSD"
DEFAULT_COLOR == "#ffffff"
MissingColor == ""
DEFAULT_RATIOS == << -1000, -618, -272, 236, 382, 500, 618, 786, 1272, 1618, 2000 >>
tfOptions == << "1m", "5m", "1h", "1d" >>

\* the part of the inputs the model enumerates
LevelRatios == << 500, 2000 >>
Timeframes  == { "1m", "1d" }
FeedBars    == { [high |-> 1000, low |-> 1000, close |-> 1000],
                 [high |-> 3000, low |-> 1000, close |-> 3000] }
UserPrices  == { 2000 }
Outcomes    == { "ok", "notok", "throw" }

---------------------------------------------------------------------------
(* Dashboard helpers *)

\* String(ratio) with "-" replaced by "m" and "." by "_": the sign mark, the
\* integer digits and the fraction digits (as thousandths) of the ratio
encRatio(ratio) ==
  LET a == IF ratio < 0 THEN -ratio ELSE ratio
  IN << IF ratio < 0 THEN "m" ELSE "", a \div 1000, a % 1000 >>

\* variant: the sign of the ratio is dropped from the id
makeId_noSign(symbol, ratio) == << symbol, "fib", << "" >> \o Tail(encRatio(ratio)) >>

makeId(symbol, ratio) == << symbol, "fib", encRatio(ratio) >>

initFibLines(symbol) ==
  [ i \in 1..Len(LevelRatios) |->
      [ id |-> makeId(symbol, LevelRatios[i]), symbol |-> symbol,
        ratio |-> Some(LevelRatios[i]), price |-> None, enabled |-> TRUE,
        alertEnabled |-> FALSE, rsiThreshold |-> Some(DefaultThreshold),
        rsiOp |-> ">=", color |-> DEFAULT_COLOR ] ]

\* updateFibLines: { color: DEFAULT_COLOR, ...ln } keeps every field of ln
\* and adds the colour only where it is missing
updateFibLines(nextLines) ==
  [ i \in 1..Len(nextLines) |->
      IF nextLines[i].color = MissingColor
        THEN [ nextLines[i] EXCEPT !.color = DEFAULT_COLOR ]
        ELSE nextLines[i] ]

\* variant: alert-enabled levels are reset as well
autoSnap_all(lines) ==
  [ i \in 1..Len(lines) |-> [ lines[i] EXCEPT !.price = None ] ]

\* the auto-snap effect of the Dashboard, for the charted symbol
autoSnap(lines) ==
  [ i \in 1..Len(lines) |->
      IF lines[i].alertEnabled THEN lines[i]
                               ELSE [ lines[i] EXCEPT !.price = None ] ]

\* variant: the new event is appended at the end of the log
pushAlert_append(prev, a) == SubSeq(prev \o << a >>, 1, Min2(Len(prev) + 1, AlertCap))

pushAlert(prev, a) == SubSeq(<< a >> \o prev, 1, Min2(Len(prev) + 1, AlertCap))

\* onFieldChange: { ...ln, ...patch } on the level with the given id
onFieldChange(lines, id, patch) ==
  [ i \in 1..Len(lines) |->
      IF lines[i].id = id
        THEN [ f \in DOMAIN lines[i] |->
                 IF f \in DOMAIN patch THEN patch[f] ELSE lines[i][f] ]
        ELSE lines[i] ]

---------------------------------------------------------------------------
(* AssetChart helpers *)

LastBar(b) == IF Len(b) > 0 THEN Some(b[Len(b)]) ELSE None

\* variant: the whole buffer is looked at
look_all(b) == b

\* bars.slice(-120)
look(b) == SubSeq(b, IF Len(b) > WindowN THEN Len(b) - WindowN + 1 ELSE 1, Len(b))

\* hi, lo and range of the lines effect
RollingWindow(b) ==
  LET lk == look(b)
      SetMax(S) == CHOOSE x \in S : \A y \in S : y <= x
      SetMin(S) == CHOOSE x \in S : \A y \in S : x <= y
      hi == IF Len(lk) > 0 THEN Some(SetMax({ lk[i].high : i \in 1..Len(lk) })) ELSE None
      lo == IF Len(lk) > 0 THEN Some(SetMin({ lk[i].low : i \in 1..Len(lk) })) ELSE None
  IN [ hi |-> hi, lo |-> lo,
       range |-> IF ~IsNull(hi) /\ ~IsNull(lo) THEN Some(Val(hi) - Val(lo)) ELSE None ]

\* ratio * range with the ratio in thousandths
Scale(ratio, range) == (ratio * range) \div 1000

\* variant: the window is consulted before the stored price
getLinePrice_windowFirst(ln, range, lo, last) ==
  IF ~IsNull(range) /\ ~IsNull(lo) /\ ~IsNull(ln.ratio)
    THEN Some(Val(lo) + Scale(Val(ln.ratio), Val(range)))
  ELSE IF ~IsNull(ln.price) THEN ln.price
  ELSE IF ~IsNull(last) THEN Some(Val(last).close) ELSE None

getLinePrice(ln, range, lo, last) ==
  IF ~IsNull(ln.price) THEN ln.price
  ELSE IF ~IsNull(range) /\ ~IsNull(lo) /\ ~IsNull(ln.ratio)
    THEN Some(Val(lo) + Scale(Val(ln.ratio), Val(range)))
  ELSE IF ~IsNull(last) THEN Some(Val(last).close) ELSE None

\* variant: a missing price is filled with the last close
hydrateFill_lastClose(lines, b) ==
  [ i \in 1..Len(lines) |->
      IF IsNull(lines[i].price) /\ Len(b) > 0
        THEN [ lines[i] EXCEPT !.price = Some(b[Len(b)].close) ]
        ELSE lines[i] ]

\* variant: every level is repriced from the window, priced or not
hydrateFill_all(lines, b) ==
  LET w == RollingWindow(b)
  IN [ i \in 1..Len(lines) |->
         LET p == getLinePrice([ lines[i] EXCEPT !.price = None ], w.range, w.lo, LastBar(b))
         IN IF ~IsNull(p) THEN [ lines[i] EXCEPT !.price = p ] ELSE lines[i] ]

\* step 0 of the lines effect: the array handed upstream
hydrateFill(lines, b) ==
  LET w == RollingWindow(b)
  IN [ i \in 1..Len(lines) |->
         IF IsNull(lines[i].price)
           THEN LET p == getLinePrice(lines[i], w.range, w.lo, LastBar(b))
                IN IF ~IsNull(p) THEN [ lines[i] EXCEPT !.price = p ] ELSE lines[i]
           ELSE lines[i] ]

\* variant: any priced level counts as a change
hydrateChanged_priced(filled, lines) ==
  \E i \in 1..Len(lines) : ~IsNull(filled[i].price)

hydrateChanged(filled, lines) ==
  \E i \in 1..Len(lines) : filled[i].price # lines[i].price

\* whether the lines effect calls onFibLinesUpdate
hydrateUpdates(lines, b) ==
  /\ Len(lines) > 0
  /\ (~IsNull(RollingWindow(b).range) \/ ~IsNull(LastBar(b)))
  /\ hydrateChanged(hydrateFill(lines, b), lines)

---------------------------------------------------------------------------
(* Alert evaluator: the alerts effect of AssetChart *)

prevCloseOf(b) == IF Len(b) > 1 THEN Some(b[Len(b) - 1].close) ELSE None

\* variant: the level's enabled switch is not consulted
eligible_noSwitch(ln) == ~IsNull(ln.price) /\ ln.alertEnabled

eligible(ln) == ln.enabled /\ ~IsNull(ln.price) /\ ln.alertEnabled

crossed(ln, prevClose, price) ==
  /\ ~IsNull(prevClose)
  /\ (Val(prevClose) < Val(ln.price)) # (ToNumber(price) < Val(ln.price))

\* variant: the two comparisons exchanged
rsiGate_swapped(op, rsiVal, threshold) ==
  IF op = ">=" \/ op = "" THEN rsiVal <= threshold ELSE rsiVal >= threshold

rsiGate(op, rsiVal, threshold) ==
  IF op = ">=" \/ op = "" THEN rsiVal >= threshold ELSE rsiVal <= threshold

\* variant: a null RSI is not skipped and compares as 0
alertFires_nullRsi(ln, prevClose, price, rsiVal) ==
  /\ eligible(ln)
  /\ ~IsNull(ln.rsiThreshold)
  /\ crossed(ln, prevClose, price)
  /\ rsiGate(ln.rsiOp, ToNumber(rsiVal), Val(ln.rsiThreshold))

alertFires(ln, prevClose, price, rsiVal) ==
  /\ eligible(ln)
  /\ ~IsNull(rsiVal) /\ ~IsNull(ln.rsiThreshold)
  /\ crossed(ln, prevClose, price)
  /\ rsiGate(ln.rsiOp, Val(rsiVal), Val(ln.rsiThreshold))

\* the levels for which one run of the effect starts a delivery
alertsEffect(lines, b, price, rsiVal) ==
  IF Len(b) = 0 \/ Len(lines) = 0 THEN {}
  ELSE { i \in 1..Len(lines) : alertFires(lines[i], prevCloseOf(b), price, rsiVal) }

\* variant: the message never carries the Heikin-Ashi tag
alertMessage_untagged(ln, tf, ha, rsiVal) ==
  [ symbol |-> ln.symbol, timeframe |-> tf, ratio |-> ln.ratio,
    price |-> ln.price, ha |-> FALSE, rsi |-> rsiVal ]

alertMessage(ln, tf, ha, rsiVal) ==
  [ symbol |-> ln.symbol, timeframe |-> tf, ratio |-> ln.ratio,
    price |-> ln.price, ha |-> ha, rsi |-> rsiVal ]

---------------------------------------------------------------------------
(* The feeds *)

MkBar(shape, t) ==
  [ time |-> t, high |-> shape.high, low |-> shape.low, close |-> shape.close ]

\* the arrays a klines request returns: ascending, one bar per bucket
Histories ==
  UNION { { [ i \in 1..n |-> MkBar(f[i], i) ] : f \in [ 1..n -> FeedBars ] } : n \in 0..MaxHist }

\* rsiCalc.calculate is a third-party function of the closes: its last
\* element is taken as an input of the model.  It returns no element for
\* an empty series, and the two series have the same length, so the two
\* values are both absent or both present.
RsiPairs(b) ==
  IF Len(b) = 0 THEN { << None, None >> }
  ELSE { << None, None >> } \cup
       { << Some(x[1]), Some(x[2]) >> : x \in { << 55, 65 >>, << 65, 55 >> } }

---------------------------------------------------------------------------
(* Initial state: the Dashboard has mounted, its effects have run *)

\* the names of the persisted keys
LS_KEYS == { "symbols", "perSymFib", "perSymMeta", "useHA", "useHaRsi", "timeframe", "tts" }

\* A stored entry: Entry("missing") where localStorage.getItem(key) is null,
\* Entry("invalid") for text JSON.parse throws on, else the value
\* JSON.parse returns, with its kind, and with val where the initialisers
\* look into it.  Numbers are non-zero and strings non-empty.
Entry(kind) == [ kind |-> kind ]
EntryOf(kind, v) == [ kind |-> kind, val |-> v ]

\* The parts of the state before anything happened to them: the alerts
\* effect did not run; no drag; the resolver check without a result;
\* localStorage without an entry; the Dashboard before its first render; a
\* relay without credentials that received no request; the speech sink with
\* TTS off, no alert in flight and nothing being spoken; the view of a chart
\* mounted some time after the epoch, fitted by the auto-center effect of
\* the mount and not yet zoomed or panned
AtRest ==
  [ evalRun |-> [ ran |-> FALSE, fired |-> {} ],
    dragging |-> [ active |-> FALSE, id |-> None ],
    rIn |-> [ ln |-> initFibLines(Symbol)[1], b |-> << >> ],
    rOut |-> [ done |-> FALSE, price |-> None ],
    storage |-> [ k \in LS_KEYS |-> Entry("missing") ],
    booted |-> [ status |-> "unmounted", session |-> 0 ],
    relay |-> [ token |-> FALSE, chat |-> FALSE, reqs |-> << >> ],
    tts |-> [ enabled |-> FALSE, posts |-> {}, queue |-> << >>, last |-> None ],
    view |-> [ now |-> 2 * Cooldown, ticks |-> 0, manualZoomRef |-> 0, input |-> None,
               last |-> [ trigger |-> "mount", fitted |-> TRUE, at |-> 2 * Cooldown,
                          after |-> None ] ] ]

\* localStorage, the Dashboard's boot, the relay and the speech sink, which
\* the chart's handlers neither read nor write
sideVars == << storage, booted, relay, tts, view >>

sideAtRest ==
  /\ storage = AtRest.storage
  /\ booted = AtRest.booted
  /\ relay = AtRest.relay
  /\ tts = AtRest.tts
  /\ view = AtRest.view

\* plMap[id]: the price of the price line the chart holds for a level id
priceLine(pl, id) == IF id \in DOMAIN pl THEN Some(pl[id]) ELSE None

\* variant: the lines effect without its last pass over the keys of plMap
draw_noSweep(lines, b, pl) ==
  LET w == RollingWindow(b)
      priceOf(ln) == LET p == getLinePrice(ln, w.range, w.lo, LastBar(b))
                     IN IF ~IsNull(p) THEN Val(p)
                        ELSE IF Len(b) > 0 THEN b[Len(b)].close ELSE 0
      visited[i \in 0..Len(lines)] ==
        IF i = 0 THEN pl
        ELSE LET m  == visited[i - 1]
                 ln == lines[i]
             IN IF ~ln.enabled THEN [ id \in DOMAIN m \ { ln.id } |-> m[id] ]
                ELSE [ id \in DOMAIN m \cup { ln.id } |->
                         IF id = ln.id THEN priceOf(ln) ELSE m[id] ]
  IN visited[Len(lines)]

\* step 1 of the lines effect on the price lines pl of the chart.  The
\* forEach over the levels removes the line of a disabled level and creates
\* or updates the line of an enabled one, at the resolved price or, where
\* there is none, at last?.close ?? 0; the pass over Object.keys(plMap) then
\* removes every line whose id belongs to no enabled level.
draw(lines, b, pl) ==
  LET w == RollingWindow(b)
      priceOf(ln) == LET p == getLinePrice(ln, w.range, w.lo, LastBar(b))
                     IN IF ~IsNull(p) THEN Val(p)
                        ELSE IF Len(b) > 0 THEN b[Len(b)].close ELSE 0
      \* plMap after the forEach visited the first i levels
      visited[i \in 0..Len(lines)] ==
        IF i = 0 THEN pl
        ELSE LET m  == visited[i - 1]
                 ln == lines[i]
             IN IF ~ln.enabled THEN [ id \in DOMAIN m \ { ln.id } |-> m[id] ]
                ELSE [ id \in DOMAIN m \cup { ln.id } |->
                         IF id = ln.id THEN priceOf(ln) ELSE m[id] ]
      m == visited[Len(lines)]
  IN [ id \in { k \in DOMAIN m :
                  \E i \in 1..Len(lines) : lines[i].id = k /\ lines[i].enabled } |-> m[id] ]

\* the drag controller at rest, as the chart is mounted
dragAtRest ==
  /\ dragging = AtRest.dragging
  /\ pan = TRUE
  /\ shield = FALSE
  /\ tip = FALSE
  /\ snapLine = FALSE
  /\ event = [ type |-> "none" ]
  /\ lastSnap = None

dragVars == << dragging, pan, shield, tip, snapLine, event, lastSnap >>

\* The level arrays found in storage at start-up: none (the defaults), and
\* arrays in which the user had set prices, alerts and switches.
Init ==
  /\ LET d  == initFibLines(Symbol)
         ge == [ alertEnabled |-> TRUE, price |-> Some(2000), rsiThreshold |-> Some(60) ]
         le == [ alertEnabled |-> TRUE, price |-> Some(2000), rsiThreshold |-> Some(60),
                 rsiOp |-> "<=" ]
         off == [ alertEnabled |-> TRUE, enabled |-> FALSE, rsiThreshold |-> Some(60) ]
     IN perSymFib \in
          { autoSnap(a) :
              a \in { d,
                      onFieldChange(d, d[1].id, ge),
                      onFieldChange(onFieldChange(d, d[1].id, le), d[2].id, off),
                      onFieldChange(onFieldChange(d, d[1].id, ge), d[2].id, ge) } }
  /\ fibLines = perSymFib
  /\ timeframe = "1d"
  /\ useHaRsi \in BOOLEAN
  /\ alerts = << >>
  /\ bars = << >>
  /\ lastPrice = None
  /\ rsi = None
  /\ haRsi = None
  /\ fetches = << timeframe >>
  /\ loadPc = "idle"
  /\ dirty = {}
  /\ batchedUpdates \in BOOLEAN
  /\ pending = {}
  /\ nAlerts = 0
  /\ clock = 0
  /\ evalRun = AtRest.evalRun
  /\ alerted = [ i \in 1..Len(LevelRatios) |-> "none" ]
  /\ hydrations = 0
  /\ rIn = AtRest.rIn
  /\ rOut = AtRest.rOut
  /\ sideAtRest
  /\ plMap = draw(fibLines, bars, << >>)
  /\ loadError = FALSE
  /\ dragAtRest

resolverVars == << rIn, rOut >>

---------------------------------------------------------------------------
(* One committed render of Dashboard and AssetChart, with the effects      *)
(* whose dependencies changed                                              *)


sideOf(price, ln) == IF ToNumber(price) < Val(ln.price) THEN "below" ELSE "above"

\* the side of the close at the last alert of level i, forgotten once an
\* evaluation sees the close on the other side
nextAlerted(i, lines, fired, price) ==
  IF i \in fired THEN sideOf(price, lines[i])
  ELSE IF IsNull(lines[i].price) \/ sideOf(price, lines[i]) # alerted[i] THEN "none"
  ELSE alerted[i]

\* store, b, lp, r, h, tf, ha: the state the render sees; deps: the effects
\* whose dependencies changed ("lines": the lines effect, "alerts": the
\* alerts effect, "snap": the Dashboard's auto-snap effect); hyd: upstream
\* hydration updates counted so far
Render(store, b, lp, r, h, tf, ha, deps, hyd) ==
  \E upd \in { "lines" \in deps /\ hydrateUpdates(store, b) } :
  \E fired \in { IF "alerts" \in deps
                   THEN alertsEffect(store, b, lp, IF ha THEN h ELSE r) ELSE {} } :
    LET afterH == IF upd THEN updateFibLines(hydrateFill(store, b)) ELSE store
        snap   == "snap" \in deps
        rsiVal == IF ha THEN h ELSE r
        run    == "alerts" \in deps
    IN /\ fibLines' = store
       /\ perSymFib' = IF snap THEN autoSnap(afterH) ELSE afterH
       /\ bars' = b
       /\ lastPrice' = lp
       /\ rsi' = r
       /\ haRsi' = h
       /\ timeframe' = tf
       /\ useHaRsi' = ha
       /\ dirty' = IF upd \/ snap THEN { "lines" } ELSE {}
       /\ hydrations' = IF upd THEN hyd + 1 ELSE hyd
       /\ pending' = pending \cup
            { [ seq |-> nAlerts + Cardinality({ j \in fired : j <= i }),
                message |-> alertMessage(store[i], tf, ha, rsiVal) ] : i \in fired }
       /\ nAlerts' = nAlerts + Cardinality(fired)
       /\ plMap' = IF "lines" \in deps THEN draw(store, b, plMap) ELSE plMap
       /\ loadError' = FALSE
       /\ evalRun' = [ ran |-> run /\ Len(b) > 0 /\ Len(store) > 0, fired |-> fired ]
       /\ alerted' = IF run /\ Len(b) > 0
                       THEN [ i \in DOMAIN alerted |-> nextAlerted(i, store, fired, lp) ]
                       ELSE alerted

\* A handler runs to completion and a scheduled re-render is committed
\* before the next event is handled.  Delivery reads and writes only the
\* requests in flight and the alert log, which no handler reads, so it
\* commutes with every handler: the model lets the requests in flight
\* settle before it takes the next event, and takes no event once
\* MaxAlerts alerts were emitted.
Ready == dirty = {} /\ pending = {} /\ nAlerts < MaxAlerts

\* the re-render that an update issued by an effect causes
Commit ==
  /\ dirty # {}
  /\ Render(perSymFib, bars, lastPrice, rsi, haRsi, timeframe, useHaRsi, dirty, hydrations)
  /\ UNCHANGED << alerts, fetches, loadPc, batchedUpdates, clock, resolverVars, dragVars,
                  sideVars >>

---------------------------------------------------------------------------
(* load(): the historical fetch and its continuation *)

lastCloseOr(b, old) == IF Len(b) > 0 THEN Some(b[Len(b)].close) ELSE old

\* the outstanding fetches without the i-th one
settled(fs, i) == SubSeq(fs, 1, i - 1) \o SubSeq(fs, i + 1, Len(fs))

\* The i-th outstanding fetch resolved with an array of klines, and the four
\* setState calls of the continuation are rendered together.  The
\* continuation does not look at the timeframe the request was made for.
Load(i, b, r) ==
  /\ batchedUpdates
  /\ Ready /\ loadPc = "idle"
  /\ i \in 1..Len(fetches)
  /\ r \in RsiPairs(b)
  /\ fetches' = settled(fetches, i)
  /\ Render(perSymFib, b, lastCloseOr(b, lastPrice), r[1], r[2], timeframe, useHaRsi,
            { "lines", "alerts" }, 0)
  /\ UNCHANGED << alerts, loadPc, batchedUpdates, clock, resolverVars, dragVars,
                  sideVars >>

\* The same continuation where every setState call after the await is
\* rendered on its own: setBars(b)
LoadSetBars(i, b) ==
  /\ ~batchedUpdates
  /\ Ready /\ loadPc = "idle"
  /\ i \in 1..Len(fetches)
  /\ fetches' = settled(fetches, i)
  /\ loadPc' = "setBars"
  /\ Render(perSymFib, b, lastPrice, rsi, haRsi, timeframe, useHaRsi,
            { "lines", "alerts" }, 0)
  /\ UNCHANGED << alerts, batchedUpdates, clock, resolverVars, dragVars,
                  sideVars >>

\* if (b.length) setLastPrice(b[b.length - 1].close)
LoadSetLastPrice ==
  /\ loadPc = "setBars"
  /\ dirty = {}
  /\ loadPc' = "setLastPrice"
  /\ IF lastCloseOr(bars, lastPrice) # lastPrice
       THEN Render(perSymFib, bars, lastCloseOr(bars, lastPrice), rsi, haRsi, timeframe,
                   useHaRsi, { "alerts" }, hydrations)
       ELSE UNCHANGED << perSymFib, timeframe, useHaRsi, fibLines, bars, lastPrice, rsi,
                         haRsi, dirty, pending, nAlerts, evalRun, alerted, hydrations,
                         plMap, loadError >>
  /\ UNCHANGED << alerts, fetches, batchedUpdates, clock, resolverVars, dragVars,
                  sideVars >>

\* setRsi(...); setHaRsi(...): no effect depends on either value
LoadSetRsi(r) ==
  /\ loadPc = "setLastPrice"
  /\ dirty = {}
  /\ r \in RsiPairs(bars)
  /\ loadPc' = "idle"
  /\ Render(perSymFib, bars, lastPrice, r[1], r[2], timeframe, useHaRsi, {}, hydrations)
  /\ UNCHANGED << alerts, fetches, batchedUpdates, clock, resolverVars, dragVars,
                  sideVars >>

\* variant: the catch block empties the buffer
LoadFail_clears(i) ==
  /\ Ready /\ loadPc = "idle"
  /\ i \in 1..Len(fetches)
  /\ fetches' = settled(fetches, i)
  /\ loadError' = TRUE
  /\ bars' = << >>
  /\ UNCHANGED << perSymFib, timeframe, useHaRsi, alerts, fibLines, lastPrice, rsi,
                  haRsi, loadPc, dirty, batchedUpdates, pending, nAlerts, clock, evalRun,
                  alerted, hydrations, plMap, resolverVars, dragVars,
                  sideVars >>

\* the fetch failed, or its body was not an array: catch (e) { console.error(e) }
LoadFail(i) ==
  /\ Ready /\ loadPc = "idle"
  /\ i \in 1..Len(fetches)
  /\ fetches' = settled(fetches, i)
  /\ loadError' = TRUE
  /\ UNCHANGED << perSymFib, timeframe, useHaRsi, alerts, fibLines, bars, lastPrice, rsi,
                  haRsi, loadPc, dirty, batchedUpdates, pending, nAlerts, clock, evalRun,
                  alerted, hydrations, plMap, resolverVars, dragVars,
                  sideVars >>

---------------------------------------------------------------------------
(* ws.onmessage: one live bar update *)


\* variant: the bar is appended whatever its time
pushBar_append(prev, bar) == Append(prev, bar)

pushBar(prev, bar) ==
  IF Len(prev) > 0 /\ prev[Len(prev)].time = bar.time
    THEN [ prev EXCEPT ![Len(prev)] = bar ]
    ELSE Append(prev, bar)

\* setBars(updater): the updater replaces or appends the bar and itself
\* calls setLastPrice, setRsi and setHaRsi, so that the four values are
\* committed by one render whether or not updates are batched.
\* The model lets a short buffer grow to MaxBars bars, and a buffer that
\* fills the window to MaxBars bars more than the window.
WsMessage(bar, r) ==
  /\ Ready /\ loadPc = "idle"
  /\ Len(pushBar(bars, bar)) <= MaxBars + (IF Len(bars) < WindowN - 1 THEN 0 ELSE WindowN)
  /\ r \in RsiPairs(pushBar(bars, bar))
  /\ Render(perSymFib, pushBar(bars, bar), Some(bar.close), r[1], r[2], timeframe,
            useHaRsi, { "lines", "alerts" }, 0)
  /\ UNCHANGED << alerts, fetches, loadPc, batchedUpdates, clock, resolverVars, dragVars,
                  sideVars >>

---------------------------------------------------------------------------
(* Dashboard controls *)

\* a timeframe button: the chart reloads, and the Dashboard's auto-snap
\* effect runs after the render
SetTimeframe(tf) ==
  /\ Ready /\ loadPc = "idle"
  /\ tf # timeframe
  /\ Len(fetches) < MaxFetch
  /\ fetches' = Append(fetches, tf)
  /\ Render(perSymFib, bars, lastPrice, rsi, haRsi, tf, useHaRsi, { "lines", "snap" }, 0)
  /\ UNCHANGED << alerts, loadPc, batchedUpdates, clock, resolverVars, dragVars,
                  sideVars >>

\* the HA-RSI checkbox: useHaRsi is a dependency of load() and of the lines effect
SetUseHaRsi(v) ==
  /\ Ready /\ loadPc = "idle"
  /\ v # useHaRsi
  /\ Len(fetches) < MaxFetch
  /\ fetches' = Append(fetches, timeframe)
  /\ Render(perSymFib, bars, lastPrice, rsi, haRsi, timeframe, v, { "lines" }, 0)
  /\ UNCHANGED << alerts, loadPc, batchedUpdates, clock, resolverVars, dragVars,
                  sideVars >>

\* the patches the price input of a level sends when a number is typed
Patches ==
  { [ price |-> Some(u) ] : u \in UserPrices }

\* variant: the render of a field edit runs the alerts effect as well
FieldChange_evaluates(i, patch) ==
  /\ Ready /\ loadPc = "idle"
  /\ Render(onFieldChange(perSymFib, perSymFib[i].id, patch), bars, lastPrice, rsi, haRsi,
            timeframe, useHaRsi, { "lines", "alerts" }, 0)
  /\ UNCHANGED << alerts, fetches, loadPc, batchedUpdates, clock, resolverVars, dragVars,
                  sideVars >>

FieldChange(i, patch) ==
  /\ Ready /\ loadPc = "idle"
  /\ Render(onFieldChange(perSymFib, perSymFib[i].id, patch), bars, lastPrice, rsi, haRsi,
            timeframe, useHaRsi, { "lines" }, 0)
  /\ UNCHANGED << alerts, fetches, loadPc, batchedUpdates, clock, resolverVars, dragVars,
                  sideVars >>

\* a colour picked in a colour input
PickedColor == "#ff0000"

\* variant: alert-enabled levels are reset as well
snapNonAlertToRange_all(lines) ==
  [ i \in 1..Len(lines) |-> [ lines[i] EXCEPT !.price = None, !.color = DEFAULT_COLOR ] ]

snapNonAlertToRange(lines) ==
  [ i \in 1..Len(lines) |->
      IF lines[i].alertEnabled THEN lines[i]
      ELSE [ lines[i] EXCEPT !.price = None, !.color = DEFAULT_COLOR ] ]

resetToDefaultRatios(symbol, lines) ==
  LET defaults == initFibLines(symbol)
      colorOf(id) ==
        IF \E j \in 1..Len(lines) : lines[j].id = id
          THEN LET c == lines[CHOOSE j \in 1..Len(lines) : lines[j].id = id].color
               IN IF c = MissingColor THEN DEFAULT_COLOR ELSE c
          ELSE DEFAULT_COLOR
  IN [ i \in 1..Len(defaults) |-> [ defaults[i] EXCEPT !.color = colorOf(defaults[i].id) ] ]

applyBulkColor(lines, chosen) ==
  [ i \in 1..Len(lines) |->
      IF lines[i].alertEnabled THEN lines[i] ELSE [ lines[i] EXCEPT !.color = chosen ] ]

\* a button of the symbol's card rewrites the symbol's array in the store
StoreEdit(next) ==
  /\ Ready /\ loadPc = "idle"
  /\ Render(next, bars, lastPrice, rsi, haRsi, timeframe, useHaRsi, { "lines" }, 0)
  /\ UNCHANGED << alerts, fetches, loadPc, batchedUpdates, clock, resolverVars, dragVars,
                  sideVars >>

---------------------------------------------------------------------------
(* Delivery: the async block of the alerts effect, then onAlert -> pushAlert *)

\* variant: any response counts as delivered
deliveredFlag_anyResponse(outcome) == outcome # "throw"

\* delivered = res.ok, and false when fetch threw
deliveredFlag(outcome) == outcome = "ok"

\* onAlert({ ts: Date.now(), message, delivered }) -> pushAlert.  The log
\* entry is identified by seq; the message text stays with the request.
OnAlert(seq, delivered) ==
  /\ alerts' = pushAlert(alerts, [ ts |-> clock + 1, seq |-> seq, delivered |-> delivered ])
  /\ clock' = clock + 1

\* The POST of alert seq settles and the event is pushed onto the log.  The
\* re-render that setAlerts causes runs no chart effect.
DeliverAlert(seq, outcome) ==
  /\ \E a \in pending : a.seq = seq /\ pending' = pending \ { a }
  /\ OnAlert(seq, deliveredFlag(outcome))
  /\ UNCHANGED << perSymFib, timeframe, useHaRsi, fibLines, bars, lastPrice, rsi, haRsi,
                  fetches, loadPc, dirty, batchedUpdates, nAlerts, evalRun, alerted,
                  hydrations, plMap, loadError, resolverVars, dragVars,
                  sideVars >>

\* one evaluation can emit an alert per level after the last event was admitted
MaxSeq == MaxAlerts - 1 + Len(LevelRatios)

---------------------------------------------------------------------------

Next ==
  \/ \E i \in 1..MaxFetch : \E b \in Histories : \E r \in RsiPairs(<< 0 >>) : Load(i, b, r)
  \/ \E i \in 1..MaxFetch : \E b \in Histories : LoadSetBars(i, b)
  \/ LoadSetLastPrice
  \/ \E r \in RsiPairs(<< 0 >>) : LoadSetRsi(r)
  \/ \E i \in 1..MaxFetch : LoadFail(i)
  \* the bucket of a live update: the bucket in progress or the next one
  \/ \E f \in FeedBars : \E r \in RsiPairs(<< 0 >>) :
       \E t \in (IF Len(bars) = 0 THEN { 1 }
                 ELSE { bars[Len(bars)].time, bars[Len(bars)].time + 1 }) :
         WsMessage(MkBar(f, t), r)
  \/ \E tf \in Timeframes : SetTimeframe(tf)
  \/ \E v \in BOOLEAN : SetUseHaRsi(v)
  \/ \E i \in 1..Len(LevelRatios) : \E patch \in Patches : FieldChange(i, patch)
  \/ Commit
  \/ \E s \in 1..MaxSeq : \E o \in Outcomes : DeliverAlert(s, o)

Spec == Init /\ [][Next]_vars

\* every POST /alert settles: fetch resolves or rejects
FairSpec == Spec /\ \A s \in 1..MaxSeq : WF_vars(\E o \in Outcomes : DeliverAlert(s, o))

---------------------------------------------------------------------------
(* The alert log on its own: pushes onto logs of every length around the cap *)

chartAtRest ==
  /\ perSymFib = initFibLines(Symbol)
  /\ fibLines = perSymFib
  /\ timeframe = "1d"
  /\ useHaRsi = FALSE
  /\ bars = << >>
  /\ lastPrice = None
  /\ rsi = None
  /\ haRsi = None
  /\ fetches = << >>
  /\ loadPc = "idle"
  /\ dirty = {}
  /\ batchedUpdates = TRUE
  /\ pending = {}
  /\ evalRun = AtRest.evalRun
  /\ alerted = [ i \in 1..Len(LevelRatios) |-> "none" ]
  /\ hydrations = 0
  /\ plMap = draw(fibLines, bars, << >>)
  /\ loadError = FALSE
  /\ dragAtRest

chartVars == << perSymFib, timeframe, useHaRsi, fibLines, bars, lastPrice, rsi, haRsi,
                fetches, loadPc, dirty, batchedUpdates, pending, evalRun, alerted,
                hydrations >>

InitLog ==
  /\ chartAtRest
  \* the log after n deliveries, every second one failed
  /\ \E n \in { 0, 1, AlertCap - 2, AlertCap - 1, AlertCap, AlertCap + 1 } :
       /\ alerts = [ k \in 1..Min2(n, AlertCap) |->
                      [ ts |-> n + 1 - k, seq |-> n + 1 - k,
                        delivered |-> (n + 1 - k) % 2 = 0 ] ]
       /\ clock = n
  /\ nAlerts = 0
  /\ rIn = AtRest.rIn
  /\ rOut = AtRest.rOut
  /\ sideAtRest

\* one more alert event reaches onAlert
LogPush(delivered) ==
  /\ nAlerts < MaxPush
  /\ nAlerts' = nAlerts + 1
  /\ OnAlert(clock + 1, delivered)
  /\ UNCHANGED << chartVars, plMap, loadError, resolverVars, dragVars,
                  sideVars >>

NextLog == \E d \in BOOLEAN : LogPush(d)

SpecLog == InitLog /\ [][NextLog]_vars

---------------------------------------------------------------------------
(* The resolver on its own: getLinePrice as the lines effect calls it *)

InitResolve ==
  /\ chartAtRest
  /\ alerts = << >>
  /\ clock = 0
  /\ nAlerts = 0
  /\ rIn \in [ ln : { [ initFibLines(Symbol)[1] EXCEPT
                            !.ratio = Some(DEFAULT_RATIOS[k]),
                            !.id = makeId(Symbol, DEFAULT_RATIOS[k]),
                            !.price = p ] :
                        k \in 1..Len(DEFAULT_RATIOS),
                        p \in { None, Some(1500), Some(2000) } },
                 b : Histories ]
  /\ rOut = AtRest.rOut
  /\ sideAtRest

\* const price = getLinePrice(ln, range, lo, last) with the window of the buffer
Resolve ==
  /\ ~rOut.done
  /\ LET w == RollingWindow(rIn.b)
     IN rOut' = [ done |-> TRUE,
                  price |-> getLinePrice(rIn.ln, w.range, w.lo, LastBar(rIn.b)) ]
  /\ UNCHANGED << chartVars, alerts, clock, nAlerts, rIn, plMap, loadError, dragVars, sideVars >>

NextResolve == Resolve

SpecResolve == InitResolve /\ [][NextResolve]_vars

---------------------------------------------------------------------------
(* The drag controller of the lines effect *)

HIT_RIGHT_WIDTH == 64
HIT_TOL_Y == 12

\* the ratios of the snapping candidates, in thousandths
SnapRatios == << -1000, -618, -272, 236, 382, 500, 618, 786, 1272, 1618, 2000 >>

\* The price scale of the chart library maps prices to pixel rows and back.
\* The model takes a linear scale with the price top at row 0 and unit
\* thousandths per row, rounded to whole rows.
PriceScale == [ top |-> 6000, unit |-> 50 ]

Abs(x) == IF x < 0 THEN -x ELSE x

\* whether the scale can convert: never with an empty series, and not
\* always with data (the catch of yToPrice / priceToY, a null coordinate)
ScaleReady(b) == IF Len(b) = 0 THEN { FALSE } ELSE BOOLEAN

priceToY(p, ready) == IF ready THEN Some((PriceScale.top - p) \div PriceScale.unit) ELSE None

\* variant: a price is returned whether or not the scale can convert
yToPrice_always(y, ready) == Some(PriceScale.top - y * PriceScale.unit)

\* coordinateToPrice inside try/catch: null when the scale cannot convert
yToPrice(y, ready) == IF ready THEN Some(PriceScale.top - y * PriceScale.unit) ELSE None

\* the rows of the pointer events of the model
PointerYs == { 20, 60, 92, 93 }

\* the row of a level as the hit test computes it
lineY(ln, b, ready) ==
  LET w == RollingWindow(b)
      price == getLinePrice(ln, w.range, w.lo, LastBar(b))
  IN IF IsNull(price) THEN None ELSE priceToY(Val(price), ready)

\* variant: disabled levels take part in the hit test
hitTestLineByMouse_anyLevel(lines, b, dx, y, ready) ==
  LET cands == { i \in 1..Len(lines) : ~IsNull(lineY(lines[i], b, ready)) }
      dy(i) == Abs(y - Val(lineY(lines[i], b, ready)))
  IN IF dx > HIT_RIGHT_WIDTH \/ cands = {} THEN 0
     ELSE LET best == CHOOSE i \in cands :
                        \A j \in cands : dy(i) < dy(j) \/ (dy(i) = dy(j) /\ i <= j)
          IN IF dy(best) <= HIT_TOL_Y THEN best ELSE 0

\* hitTestLineByMouse: the index of the target level, 0 for null.  The
\* forEach keeps the first level of the smallest distance (dy < bestDy).
hitTestLineByMouse(lines, b, dx, y, ready) ==
  LET cands == { i \in 1..Len(lines) :
                   lines[i].enabled /\ ~IsNull(lineY(lines[i], b, ready)) }
      dy(i) == Abs(y - Val(lineY(lines[i], b, ready)))
  IN IF dx > HIT_RIGHT_WIDTH \/ cands = {} THEN 0
     ELSE LET best == CHOOSE i \in cands :
                        \A j \in cands : dy(i) < dy(j) \/ (dy(i) = dy(j) /\ i <= j)
          IN IF dy(best) <= HIT_TOL_Y THEN best ELSE 0

\* const snaps: the ratio prices when the window exists, then the high and
\* the low of every bar of the window
snaps(b) ==
  LET w  == RollingWindow(b)
      lk == look(b)
      rs == IF IsNull(w.range) THEN << >>
            ELSE [ k \in 1..Len(SnapRatios) |->
                     [ type |-> "ratio",
                       price |-> Val(w.lo) + Scale(SnapRatios[k], Val(w.range)) ] ]
      hl == [ k \in 1..(2 * Len(lk)) |->
                IF k % 2 = 1 THEN [ type |-> "high", price |-> lk[(k + 1) \div 2].high ]
                             ELSE [ type |-> "low", price |-> lk[k \div 2].low ] ]
  IN rs \o hl

\* variant: the first candidate is returned
nearestSnap_first(price, b) ==
  LET ss == snaps(b)
  IN IF Len(ss) = 0 THEN [ type |-> "null", price |-> price ] ELSE ss[1]

\* nearestSnap: the first candidate of the smallest distance (d < dmin), the
\* raw price when there is no candidate
nearestSnap(price, b) ==
  LET ss == snaps(b)
      d(k) == Abs(ss[k].price - price)
  IN IF Len(ss) = 0 THEN [ type |-> "null", price |-> price ]
     ELSE ss[CHOOSE k \in 1..Len(ss) :
               \A j \in 1..Len(ss) : d(k) < d(j) \/ (d(k) = d(j) /\ k <= j)]

\* variant: the price is written into the first level
moved_first(lines, id, price) ==
  [ i \in 1..Len(lines) |->
      IF i = 1 THEN [ lines[i] EXCEPT !.price = Some(price) ] ELSE lines[i] ]

\* fibLines.map(l => l.id === id ? { ...l, price: snap.price } : l)
moved(lines, id, price) ==
  [ i \in 1..Len(lines) |->
      IF lines[i].id = id THEN [ lines[i] EXCEPT !.price = Some(price) ] ELSE lines[i] ]

\* onMouseDown on the chart container.  The handlers of the last committed
\* render are the attached ones: they read its fibLines and bars.
PointerDown(dx, y, ready) ==
  LET target == hitTestLineByMouse(fibLines, bars, dx, y, ready)
  IN /\ event' = [ type |-> "down", dx |-> dx, y |-> y, ready |-> ready ]
     /\ IF target = 0
          THEN UNCHANGED << dragging, pan, shield, tip, lastSnap >>
          ELSE /\ dragging' = [ active |-> TRUE, id |-> Some(fibLines[target].id) ]
               /\ pan' = FALSE
               /\ shield' = TRUE
               /\ tip' = TRUE
               /\ lastSnap' = None
     /\ UNCHANGED << perSymFib, timeframe, useHaRsi, alerts, fibLines, bars, lastPrice, rsi,
                     haRsi, fetches, loadPc, dirty, batchedUpdates, pending, nAlerts, clock,
                     evalRun, alerted, hydrations, plMap, loadError, snapLine, resolverVars,
                  sideVars >>

\* onShieldMove on the drag shield
PointerMove(y, ready) ==
  LET p == yToPrice(y, ready)
      writes == dragging.active /\ ~IsNull(p)
             /\ \E i \in 1..Len(fibLines) : Some(fibLines[i].id) = dragging.id
      snap == nearestSnap(Val(p), bars)
      k == CHOOSE i \in 1..Len(fibLines) : Some(fibLines[i].id) = dragging.id
      unrendered == ~IsNull(lastSnap) /\ perSymFib[k].price # fibLines[k].price
  IN /\ event' = [ type |-> "move", y |-> y, ready |-> ready ]
     /\ IF writes
          THEN /\ snapLine' = (snapLine \/ ~IsNull(priceToY(snap.price, ready)))
               /\ perSymFib' = updateFibLines(moved(fibLines, Val(dragging.id), snap.price))
               /\ dirty' = { "lines" }
               /\ hydrations' = 0
               /\ lastSnap' = Some([ price |-> snap.price,
                                      nth |-> IF unrendered THEN 2 ELSE 1 ])
          ELSE UNCHANGED << snapLine, perSymFib, dirty, hydrations, lastSnap >>
     /\ UNCHANGED << timeframe, useHaRsi, alerts, fibLines, bars, lastPrice, rsi, haRsi,
                     fetches, loadPc, batchedUpdates, pending, nAlerts, clock, evalRun,
                     alerted, plMap, loadError, dragging, pan, shield, tip, resolverVars,
                  sideVars >>

\* variant: the pointer-up leaves the pan option as it is
PointerUp_panKept ==
  /\ event' = [ type |-> "up" ]
  /\ IF dragging.active
       THEN /\ dragging' = AtRest.dragging
            /\ tip' = FALSE
            /\ snapLine' = FALSE
            /\ shield' = FALSE
            /\ UNCHANGED pan
       ELSE UNCHANGED << dragging, tip, snapLine, pan, shield >>
  /\ UNCHANGED << perSymFib, timeframe, useHaRsi, alerts, fibLines, bars, lastPrice, rsi,
                  haRsi, fetches, loadPc, dirty, batchedUpdates, pending, nAlerts, clock,
                  evalRun, alerted, hydrations, plMap, loadError, lastSnap, resolverVars,
                  sideVars >>

\* onShieldUp on the window
PointerUp ==
  /\ event' = [ type |-> "up" ]
  /\ IF dragging.active
       THEN /\ dragging' = AtRest.dragging
            /\ tip' = FALSE
            /\ snapLine' = FALSE
            /\ pan' = TRUE
            /\ shield' = FALSE
       ELSE UNCHANGED << dragging, tip, snapLine, pan, shield >>
  /\ UNCHANGED << perSymFib, timeframe, useHaRsi, alerts, fibLines, bars, lastPrice, rsi,
                  haRsi, fetches, loadPc, dirty, batchedUpdates, pending, nAlerts, clock,
                  evalRun, alerted, hydrations, plMap, loadError, lastSnap, resolverVars,
                  sideVars >>

\* variant: the price lines are repainted at the last close
tick_lastClose(lines, b, pl) ==
  [ id \in DOMAIN pl |->
      IF Len(b) > 0 /\ \E i \in 1..Len(lines) : lines[i].id = id /\ lines[i].enabled
        THEN b[Len(b)].close ELSE pl[id] ]

\* tick: the prices of the price lines after the repaint
tick(lines, b, pl) ==
  LET w == RollingWindow(b)
      \* the prices after the forEach visited the first i levels
      visited[i \in 0..Len(lines)] ==
        IF i = 0 THEN pl
        ELSE LET m     == visited[i - 1]
                 price == getLinePrice(lines[i], w.range, w.lo, LastBar(b))
             IN IF lines[i].enabled /\ lines[i].id \in DOMAIN m /\ ~IsNull(price)
                  THEN [ m EXCEPT ![lines[i].id] = Val(price) ] ELSE m
  IN visited[Len(lines)]

\* an animation frame: tick repaints and requests the next frame
Tick ==
  /\ event' = [ type |-> "frame" ]
  /\ plMap' = tick(fibLines, bars, plMap)
  /\ UNCHANGED << perSymFib, timeframe, useHaRsi, alerts, fibLines, bars, lastPrice, rsi,
                  haRsi, fetches, loadPc, dirty, batchedUpdates, pending, nAlerts, clock,
                  evalRun, alerted, hydrations, loadError, dragging, pan, shield, tip,
                  snapLine, lastSnap, resolverVars,
                  sideVars >>

MaxDragHist == 1

\* the array after the lines effect hydrated it
hydrated(lines, b) ==
  IF hydrateUpdates(lines, b) THEN updateFibLines(hydrateFill(lines, b)) ELSE lines

\* a mounted chart with its history loaded and its levels hydrated
InitDrag ==
  \* the stored arrays the drag controller is exercised on
  /\ \E arr \in LET d == initFibLines(Symbol)
                 IN { d,
                      onFieldChange(d, d[2].id, [ enabled |-> FALSE ]),
                      onFieldChange(d, d[1].id, [ enabled |-> FALSE, price |-> Some(5000) ]),
                      onFieldChange(d, d[1].id, [ price |-> Some(1500) ]),
                      \* an array stored when the ratio 1 was a default ratio
                      onFieldChange(onFieldChange(d, d[1].id,
                                      [ id |-> makeId(Symbol, 1000), ratio |-> Some(1000) ]),
                                    d[2].id, [ color |-> PickedColor ]) } :
     \E b \in { h \in Histories : Len(h) <= MaxDragHist } :
       /\ perSymFib = hydrated(arr, b)
       /\ fibLines = perSymFib
       /\ bars = b
       /\ lastPrice = lastCloseOr(b, None)
       /\ plMap = draw(fibLines, b, << >>)
       /\ loadError = FALSE
  /\ timeframe = "1d"
  /\ useHaRsi = FALSE
  /\ rsi = None
  /\ haRsi = None
  /\ fetches = << >>
  /\ loadPc = "idle"
  /\ dirty = {}
  /\ batchedUpdates = TRUE
  /\ pending = {}
  /\ nAlerts = 0
  /\ evalRun = AtRest.evalRun
  /\ alerted = [ i \in 1..Len(LevelRatios) |-> "none" ]
  /\ hydrations = 0
  /\ alerts = << >>
  /\ clock = 0
  /\ rIn = AtRest.rIn
  /\ rOut = AtRest.rOut
  /\ sideAtRest
  /\ dragAtRest

NextDrag ==
  \/ \E dx \in { HIT_RIGHT_WIDTH, HIT_RIGHT_WIDTH + 1 } : \E y \in PointerYs : \E ready \in ScaleReady(bars) :
       PointerDown(dx, y, ready)
  \/ \E y \in PointerYs : \E ready \in ScaleReady(bars) : PointerMove(y, ready)
  \/ PointerUp
  \/ Tick
  \/ Commit

SpecDrag == InitDrag /\ [][NextDrag]_vars
----------------------------------------------------------------------------
(* The operations on the levels of a symbol *)

\* The controls the model operates: the colour and RSI operator of level 1,
\* the alert switch and the price of level 2, the buttons of the card (the
\* bulk colour being bulkColor[sym] || DEFAULT_COLOR), the timeframe
\* buttons, and a drag pressed on the row of level 1 of a one-bar window
\* and moved to a row between the levels.
NextEdit ==
  \/ \E c \in { << 1, [ color |-> PickedColor ] >>, << 1, [ rsiOp |-> "<=" ] >>,
                 << 2, [ alertEnabled |-> TRUE ] >>, << 2, [ price |-> Some(2000) ] >> } :
       FieldChange(c[1], c[2])
  \/ StoreEdit(snapNonAlertToRange(perSymFib))
  \/ StoreEdit(resetToDefaultRatios(Symbol, perSymFib))
  \/ \E chosen \in { DEFAULT_COLOR, PickedColor } : StoreEdit(applyBulkColor(perSymFib, chosen))
  \/ \E tf \in Timeframes : SetTimeframe(tf)
  \/ PointerDown(HIT_RIGHT_WIDTH, 92, TRUE)
  \/ PointerMove(60, TRUE)
  \/ PointerUp
  \/ Commit

\* a mounted chart with a one-bar history and the default levels, hydrated
InitEdit ==
  /\ InitDrag
  /\ Len(bars) = 1
  /\ perSymFib = hydrated(initFibLines(Symbol), bars)

SpecEdit == InitEdit /\ [][NextEdit]_vars

\* The operations that change which levels are drawn: the enabled switch of
\* a level and the reset and snap buttons of the card, with the animation
\* frames
NextLines ==
  \/ \E i \in 1..Len(LevelRatios) : \E v \in BOOLEAN : FieldChange(i, [ enabled |-> v ])
  \/ StoreEdit(resetToDefaultRatios(Symbol, perSymFib))
  \/ StoreEdit(snapNonAlertToRange(perSymFib))
  \/ Tick
  \/ Commit

SpecLines == InitDrag /\ [][NextLines]_vars

\* The edits of the alert settings: the alert switch, the RSI threshold and
\* the RSI operator of level 1, and the alert switch and the price of level 2
Edits ==
  { << 1, [ alertEnabled |-> TRUE ] >>, << 1, [ rsiThreshold |-> Some(60) ] >>,
    << 1, [ rsiOp |-> "<=" ] >>, << 2, [ alertEnabled |-> TRUE ] >>,
    << 2, [ price |-> Some(2000) ] >> }

\* Edits and drags between live bars that come with an RSI value: the
\* standard RSI is 55, between the default threshold and the edited one
NextQuiet ==
  \/ \E f \in FeedBars : \E t \in { bars[Len(bars)].time, bars[Len(bars)].time + 1 } :
       WsMessage(MkBar(f, t), << Some(55), Some(65) >>)
  \/ \E c \in Edits : FieldChange(c[1], c[2])
  \/ PointerDown(HIT_RIGHT_WIDTH, 20, TRUE)
  \/ PointerMove(60, TRUE)
  \/ Commit
  \/ \E s \in 1..MaxSeq : DeliverAlert(s, "ok")

SpecQuiet == InitEdit /\ [][NextQuiet]_vars


---------------------------------------------------------------------------
(* The two feeds of a chart whose timeframe is switched *)

\* The klines of an interval open at multiples of its width.  For each
\* timeframe: the open time of the bucket in progress, and the width.
Buckets ==
  [ tf \in Timeframes |->
      IF tf = "1m" THEN [ open |-> 3, width |-> 1 ] ELSE [ open |-> 2, width |-> 2 ] ]

\* the arrays a klines request for timeframe tf returns: the last n buckets
\* of the interval, the bucket in progress being the last
HistoriesOf(tf) ==
  UNION { { [ i \in 1..n |-> MkBar(f[i], Buckets[tf].open - (n - i) * Buckets[tf].width) ] :
              f \in [ 1..n -> FeedBars ] } : n \in 0..MaxHist }


MaxStale == 2
MaxReloads == 2

\* a timeframe button pressed while earlier fetches may still be outstanding:
\* the effects of the new render start another load() and replace the
\* socket, and nothing is done about the fetches in flight
SwitchTimeframe(tf) ==
  /\ Ready /\ loadPc = "idle"
  /\ tf # timeframe
  /\ Len(fetches) < MaxStale
  /\ fetches' = Append(fetches, tf)
  /\ Render(perSymFib, bars, lastPrice, rsi, haRsi, tf, useHaRsi, { "lines", "snap" }, 0)
  /\ UNCHANGED << alerts, loadPc, batchedUpdates, clock, resolverVars, dragVars,
                  sideVars >>

\* a chart just mounted, none of its levels alert-enabled
InitFeed ==
  /\ perSymFib = autoSnap(initFibLines(Symbol))
  /\ fibLines = perSymFib
  /\ timeframe = "1d"
  /\ useHaRsi = FALSE
  /\ alerts = << >>
  /\ bars = << >>
  /\ lastPrice = None
  /\ rsi = None
  /\ haRsi = None
  /\ fetches = << timeframe >>
  /\ loadPc = "idle"
  /\ dirty = {}
  /\ batchedUpdates = TRUE
  /\ pending = {}
  /\ nAlerts = 0
  /\ clock = 0
  /\ evalRun = AtRest.evalRun
  /\ alerted = [ i \in 1..Len(LevelRatios) |-> "none" ]
  /\ hydrations = 0
  /\ rIn = AtRest.rIn
  /\ rOut = AtRest.rOut
  /\ sideAtRest
  /\ plMap = draw(fibLines, bars, << >>)
  /\ loadError = FALSE
  /\ dragAtRest

\* The socket of the previous timeframe is closed by the cleanup of the
\* live effect and a closed socket delivers no message, so every message
\* handled is one of the current timeframe's stream.
NextFeed ==
  \/ \E i \in 1..Len(fetches) : \E b \in HistoriesOf(fetches[i]) : \E r \in RsiPairs(b) :
       Load(i, b, r)
  \/ \E i \in 1..Len(fetches) : LoadFail(i)
  \/ \E bar \in { MkBar(f, Buckets[timeframe].open) : f \in FeedBars } : \E r \in RsiPairs(<< 0 >>) : WsMessage(bar, r)
  \/ \E tf \in Timeframes : SwitchTimeframe(tf)
  \/ Commit

SpecFeed == InitFeed /\ [][NextFeed]_vars

---------------------------------------------------------------------------
(* The rolling window of a buffer longer than the window *)

\* The klines request returns up to 500 bars: the histories here have as
\* many bars as the window, and one more, all of them flat but the oldest
\* bar, with a high above and a low below every other bar.  Live bars then
\* replace the last bar or append one, the levels are snapped again, and a
\* level is dragged.
NextWindow ==
  \/ \E n \in { WindowN, WindowN + 1 } :
       Load(1, [ i \in 1..n |->
                   IF i = 1 THEN [ time |-> i, high |-> 4000, low |-> 500, close |-> 1000 ]
                   ELSE [ time |-> i, high |-> 1000, low |-> 1000, close |-> 1000 ] ],
            << None, None >>)
  \/ \E f \in FeedBars : \E t \in { bars[Len(bars)].time + d : d \in { x \in { 0, 1 } : Len(bars) > 0 } } :
       WsMessage(MkBar(f, t), << None, None >>)
  \/ StoreEdit(snapNonAlertToRange(perSymFib))
  \/ PointerDown(HIT_RIGHT_WIDTH, 92, TRUE)
  \/ PointerMove(60, TRUE)
  \/ Commit

SpecWindow == InitFeed /\ [][NextWindow]_vars

---------------------------------------------------------------------------
(* Persistence: loadLS, the useState initialisers of the Dashboard, the    *)
(* effects that run at mount and the save effects                          *)

NoKeys == [ k \in {} |-> Entry("null") ]

Range(list) == { list[i] : i \in 1..Len(list) }

loadLS(store, key, fallback) ==
  IF store[key].kind \in { "missing", "invalid" } THEN fallback ELSE store[key]

\* JS truthiness of a parsed value
truthy(v) ==
  CASE v.kind = "null" -> FALSE
    [] v.kind = "bool" -> v.val
    [] OTHER -> TRUE

\* App renders <Dashboard defaultSymbols={["XRPUSDT"]} />
defaultSymbols == << "XRPUSDT" >>

RECURSIVE dedup(_)
dedup(list) ==
  IF list = << >> THEN << >>
  ELSE LET init == dedup(SubSeq(list, 1, Len(list) - 1))
           last == list[Len(list)]
       IN IF last \in Range(init) THEN init ELSE Append(init, last)

ensureHasXRPUSD(list) ==
  IF Len(list) = 0 THEN << Symbol >>
  ELSE LET toUpperCase(s) == CASE s = "xrpusd" -> "XRPUSD"
                               [] s = "btcusdt" -> "BTCUSDT"
                               [] OTHER -> s
           upper == [ i \in 1..Len(list) |-> toUpperCase(list[i]) ]
       IN dedup(IF Symbol \in Range(upper) THEN upper ELSE << Symbol >> \o upper)

\* the symbols initialiser
initSymbols(store) ==
  LET saved == loadLS(store, "symbols", Entry("null"))
  IN IF saved.kind = "array" /\ Len(saved.val) > 0
       THEN ensureHasXRPUSD(saved.val)
       ELSE ensureHasXRPUSD(defaultSymbols)

\* { ...(saved || {}) }: the own enumerable properties of the parsed value;
\* a string spreads into its characters
spread(saved) ==
  CASE saved.kind = "object" -> saved.val
    [] saved.kind = "string" -> [ k \in { "0" } |-> Entry("string") ]
    [] OTHER -> NoKeys

\* variant: the stored colour is overwritten by the default
backfillColor_overwrite(lines) ==
  [ i \in 1..Len(lines) |-> [ lines[i] EXCEPT !.color = DEFAULT_COLOR ] ]

\* out[sym].map(ln => ({ color: DEFAULT_COLOR, ...ln }))
backfillColor(lines) ==
  [ i \in 1..Len(lines) |->
      IF lines[i].color = MissingColor
        THEN [ lines[i] EXCEPT !.color = DEFAULT_COLOR ] ELSE lines[i] ]

\* the perSymFib initialiser: .map is called on every entry of out, and
\* throws a TypeError on an entry that is not an array
initPerSymFib(store, symbols) ==
  LET sp  == spread(loadLS(store, "perSymFib", EntryOf("object", NoKeys)))
      out == [ k \in DOMAIN sp \cup Range(symbols) |->
                 IF k \in Range(symbols) /\ (k \notin DOMAIN sp \/ ~truthy(sp[k]))
                   THEN EntryOf("array", initFibLines(k)) ELSE sp[k] ]
  IN IF \E k \in DOMAIN out : out[k].kind # "array"
       THEN [ threw |-> TRUE ]
       ELSE [ threw |-> FALSE, val |-> [ k \in DOMAIN out |-> backfillColor(out[k].val) ] ]

\* defaultMeta(); opacity in hundredths
defaultMeta ==
  [ vwap   |-> [ show |-> Some(TRUE),  color |-> Some("#ffffff"), opacity |-> Some(50),
                 smooth |-> Some(1) ],
    ema9   |-> [ show |-> Some(FALSE), color |-> Some("#a78bfa"), opacity |-> Some(75),
                 smooth |-> Some(1) ],
    ema20  |-> [ show |-> Some(FALSE), color |-> Some("#60a5fa"), opacity |-> Some(75),
                 smooth |-> Some(1) ],
    ema200 |-> [ show |-> Some(FALSE), color |-> Some("#f87171"), opacity |-> Some(90),
                 smooth |-> Some(1) ] ]

\* an overlay object without fields: m.vwap || {}
NoFields == [ f \in DOMAIN defaultMeta.vwap |-> None ]

\* { show: ..., color: ..., opacity: ..., smooth: 1, ...(m.vwap || {}) }
backfillMeta(m) ==
  [ k \in DOMAIN defaultMeta |->
      LET given == IF m.kind = "object" THEN m.val[k] ELSE NoFields
      IN [ f \in DOMAIN NoFields |->
             IF IsNull(given[f]) THEN defaultMeta[k][f] ELSE given[f] ] ]

\* the perSymMeta initialiser
initPerSymMeta(store, symbols) ==
  LET sp == spread(loadLS(store, "perSymMeta", EntryOf("object", NoKeys)))
  IN [ k \in DOMAIN sp \cup Range(symbols) |->
         IF k \notin Range(symbols) THEN sp[k]
         ELSE IF k \notin DOMAIN sp \/ ~truthy(sp[k])
           THEN EntryOf("object", backfillMeta(EntryOf("object", defaultMeta)))
         ELSE EntryOf("object", backfillMeta(sp[k])) ]

\* JSON.stringify of every persisted piece of the Dashboard state d
saved(d) ==
  [ k \in LS_KEYS |->
      CASE k = "symbols" -> EntryOf("array", d.symbols)
        [] k = "perSymFib" -> EntryOf("object", [ s \in DOMAIN d.perSymFib |-> EntryOf("array", d.perSymFib[s]) ])
        [] k = "perSymMeta" -> EntryOf("object", d.perSymMeta)
        [] k = "timeframe" -> d.timeframe
        [] k = "useHA" -> EntryOf("bool", d.useHeikinAshi)
        [] k = "useHaRsi" -> EntryOf("bool", d.useHaRsi)
        [] OTHER -> EntryOf("bool", d.ttsEnabled) ]

\* the symbols effect: an entry for every symbol, none for any other key
ensureEntries(d) ==
  [ d EXCEPT
      !.perSymFib = [ s \in Range(d.symbols) |->
                        IF s \in DOMAIN d.perSymFib THEN d.perSymFib[s] ELSE initFibLines(s) ],
      !.perSymMeta = [ s \in Range(d.symbols) |->
                         IF s \in DOMAIN d.perSymMeta /\ truthy(d.perSymMeta[s])
                           THEN EntryOf("object", backfillMeta(d.perSymMeta[s]))
                           ELSE EntryOf("object", defaultMeta) ] ]

\* variant: only the first symbol of the list is snapped
autoSnapAll_first(d) ==
  [ d EXCEPT !.perSymFib = [ s \in DOMAIN d.perSymFib |->
      IF d.symbols # << >> /\ s = d.symbols[1] THEN autoSnap(d.perSymFib[s])
      ELSE d.perSymFib[s] ] ]

\* the auto-snap effect, over every symbol of the list
autoSnapAll(d) ==
  [ d EXCEPT !.perSymFib = [ s \in DOMAIN d.perSymFib |-> autoSnap(d.perSymFib[s]) ] ]

\* The first render of the Dashboard: its useState initialisers, in order.
\* An initialiser that throws ends the render; nothing is mounted.
Boot ==
  /\ booted.status = "unmounted"
  /\ LET syms == initSymbols(storage)
         fib  == initPerSymFib(storage, syms)
     IN booted' =
          IF fib.threw THEN [ status |-> "threw", session |-> booted.session ]
          ELSE [ status |-> "mounted", session |-> booted.session,
                 symbols |-> syms,
                 perSymFib |-> fib.val,
                 perSymMeta |-> initPerSymMeta(storage, syms),
                 timeframe |-> loadLS(storage, "timeframe", EntryOf("string", "1d")),
                 useHeikinAshi |-> truthy(loadLS(storage, "useHA", EntryOf("bool", FALSE))),
                 useHaRsi |-> truthy(loadLS(storage, "useHaRsi", EntryOf("bool", FALSE))),
                 ttsEnabled |-> truthy(loadLS(storage, "tts", EntryOf("bool", FALSE))) ]
  /\ UNCHANGED << chartVars, alerts, clock, nAlerts, plMap, loadError, resolverVars, dragVars,
                  storage, relay, tts, view >>

\* The effects of the mount and the render they cause: the symbols effect,
\* the auto-snap effect and the save effects.
Mount ==
  /\ booted.status = "mounted"
  /\ LET d == [ autoSnapAll(ensureEntries(booted)) EXCEPT !.status = "running" ]
     IN booted' = d /\ storage' = saved(d)
  /\ UNCHANGED << chartVars, alerts, clock, nAlerts, plMap, loadError, resolverVars, dragVars,
                  relay, tts, view >>

\* a handler of the running Dashboard sets state d, and the save effects follow
Handle(d) ==
  /\ booted.status = "running"
  /\ booted' = d /\ storage' = saved(d)
  /\ UNCHANGED << chartVars, alerts, clock, nAlerts, plMap, loadError, resolverVars, dragVars,
                  relay, tts, view >>

\* a control of level i of symbol s
EditLevel(s, i, patch) ==
  /\ booted.status = "running" /\ s \in DOMAIN booted.perSymFib
  /\ Handle([ booted EXCEPT !.perSymFib[s] = onFieldChange(@, @[i].id, patch) ])

\* setMeta: an overlay control of symbol s
SetMeta(s, k, f, v) ==
  /\ booted.status = "running" /\ s \in DOMAIN booted.perSymMeta
  /\ Handle([ booted EXCEPT !.perSymMeta[s] = EntryOf("object", [ @.val EXCEPT ![k][f] = Some(v) ]) ])

\* addSymbol, with the symbols effect and the auto-snap effect it triggers
AddSymbol(sym) ==
  /\ booted.status = "running"
  /\ LET next == IF sym \in Range(booted.symbols) THEN booted.symbols
                 ELSE Append(booted.symbols, sym)
     IN Handle(autoSnapAll(ensureEntries([ booted EXCEPT !.symbols = ensureHasXRPUSD(next) ])))

\* the Remove button of the card of sym, with the symbols effect (which
\* prunes the entries of sym) and the auto-snap effect it triggers
RemoveSymbol(sym) ==
  /\ booted.status = "running" /\ sym \in Range(booted.symbols)
  /\ ~(sym = Symbol /\ Len(booted.symbols) = 1)
  /\ Handle(autoSnapAll(ensureEntries(
       [ booted EXCEPT !.symbols = SelectSeq(@, LAMBDA x : x # sym) ])))

\* a timeframe button, with the auto-snap effect the new timeframe triggers
ChooseTimeframe(tf) ==
  /\ booted.status = "running" /\ booted.timeframe # EntryOf("string", tf)
  /\ Handle(autoSnapAll([ booted EXCEPT !.timeframe = EntryOf("string", tf) ]))

\* the snap button of the card of s
SnapSymbol(s) ==
  /\ booted.status = "running" /\ s \in DOMAIN booted.perSymFib
  /\ Handle([ booted EXCEPT !.perSymFib[s] = snapNonAlertToRange(@) ])

\* the lines effect of the chart of s, whose buffer is b, hands the
\* hydrated array upstream: onFibLinesUpdate -> updateFibLines
Hydrate(s, b) ==
  /\ booted.status = "running" /\ s \in DOMAIN booted.perSymFib
  /\ hydrateUpdates(booted.perSymFib[s], b)
  /\ Handle([ booted EXCEPT !.perSymFib[s] = updateFibLines(hydrateFill(@, b)) ])

\* the page is loaded again
Reload ==
  /\ booted.status \in { "running", "threw" }
  /\ booted.session < MaxReloads
  /\ booted' = [ status |-> "unmounted", session |-> booted.session + 1 ]
  /\ UNCHANGED << chartVars, alerts, clock, nAlerts, plMap, loadError, resolverVars, dragVars,
                  storage, relay, tts, view >>

\* The entries the model stores under a key before the first boot.  The
\* level arrays of earlier sessions: from a build without the colour field,
\* and with a priced level whose alert is off.  The overlay object of an
\* earlier session: from a build without ema200 and the smooth field.
StoredEntries(key) ==
  LET d == initFibLines(Symbol)
      levels == { [ i \in 1..Len(d) |-> [ d[i] EXCEPT !.color = MissingColor ] ],
                  onFieldChange(d, d[1].id, [ price |-> Some(1500), color |-> PickedColor ]) }
      meta == [ k \in DOMAIN defaultMeta |->
                  IF k = "ema200" THEN NoFields
                  ELSE [ defaultMeta[k] EXCEPT !.show = Some(TRUE), !.smooth = None ] ]
      under(k, e) == EntryOf("object", [ x \in { k } |-> e ])
  IN CASE key = "symbols" ->
            { Entry("invalid"), Entry("null"), Entry("string"), EntryOf("array", << >>),
              EntryOf("array", << "XRPUSDT" >>), EntryOf("array", << "btcusdt", "XRPUSD" >>) }
       [] key = "perSymFib" ->
            { Entry("invalid"), Entry("null"), Entry("number"), Entry("string"),
              EntryOf("object", NoKeys), under(Symbol, Entry("object")),
              under("ETHUSDT", Entry("null")) }
            \cup { under(Symbol, EntryOf("array", a)) : a \in levels }
       [] key = "perSymMeta" ->
            { Entry("invalid"), Entry("null"), Entry("string"), under(Symbol, Entry("string")),
              under(Symbol, EntryOf("object", meta)) }
       [] key = "timeframe" ->
            { Entry("invalid"), Entry("null"), Entry("number"), EntryOf("string", "1m"),
              EntryOf("string", "bogus") }
       [] OTHER ->
            { Entry("invalid"), Entry("null"), Entry("string"), EntryOf("bool", TRUE),
              EntryOf("bool", FALSE) }

InitPersist ==
  /\ chartAtRest
  /\ alerts = << >>
  /\ clock = 0
  /\ nAlerts = 0
  /\ rIn = AtRest.rIn
  /\ rOut = AtRest.rOut
  /\ \/ storage = AtRest.storage
     \/ \E key \in LS_KEYS : \E e \in StoredEntries(key) :
          storage = [ AtRest.storage EXCEPT ![key] = e ]
  /\ booted = AtRest.booted
  /\ relay = AtRest.relay
  /\ tts = AtRest.tts
  /\ view = AtRest.view

NextPersist ==
  \/ Boot
  \/ Mount
  \/ \E patch \in { [ color |-> PickedColor ], [ price |-> Some(2000) ],
                    [ alertEnabled |-> TRUE ] } : EditLevel(Symbol, 2, patch)
  \/ SetMeta(Symbol, "ema9", "show", TRUE)
  \/ AddSymbol("BTCUSDT")
  \/ \E sym \in { Symbol, "BTCUSDT" } : RemoveSymbol(sym)
  \/ ChooseTimeframe("5m")
  \/ \E s \in { Symbol, "BTCUSDT" } : SnapSymbol(s)
  \/ \E s \in { Symbol, "BTCUSDT" } : \E b \in { h \in Histories : Len(h) = 1 } : Hydrate(s, b)
  \/ Reload

SpecPersist == InitPersist /\ [][NextPersist]_vars

---------------------------------------------------------------------------
(* The relay: app.post('/alert') of server/index.js *)

MaxRequests == 3

\* variant: only the token is looked at
notConfigured_tokenOnly(token, chatId) == ~token

\* !token || !chatId
notConfigured(token, chatId) == ~token \/ ~chatId

\* the body the relay answers with after the forwarding call ended
forwardedBody(outcome) ==
  CASE outcome = "sent" -> [ ok |-> TRUE, result |-> "message" ]
    [] outcome = "rejected" -> [ ok |-> FALSE, description |-> "Bad Request" ]
    [] OTHER -> [ ok |-> FALSE, error |-> "String(e)" ]

\* variant: a failure is answered with a server error status
resJson_errorStatus(body) == [ status |-> IF body.ok THEN 200 ELSE 500, body |-> body ]

\* res.json(body), with no call of res.status before it
resJson(body) == [ status |-> 200, body |-> body ]

\* a POST /alert arrives: answered at once without credentials, else the
\* text is sent to the messaging service and the handler awaits the answer
PostAlert(message) ==
  /\ Len(relay.reqs) < MaxRequests
  /\ relay' = [ relay EXCEPT !.reqs = Append(@,
       IF notConfigured(relay.token, relay.chat)
         THEN LET res == resJson([ ok |-> FALSE,
                                   error |-> "Missing TELEGRAM_BOT_TOKEN or TELEGRAM_CHAT_ID" ])
              IN [ pc |-> "answered", contacted |-> FALSE, outcome |-> "none",
                   text |-> None, body |-> res.body, status |-> res.status ]
         ELSE [ pc |-> "awaiting", contacted |-> TRUE, outcome |-> "none",
                text |-> IF IsNull(message) THEN Some("(no message)") ELSE message ]) ]
  /\ UNCHANGED << chartVars, alerts, clock, nAlerts, plMap, loadError, resolverVars, dragVars,
                  storage, booted, tts, view >>

\* the forwarding call of request k ends and the request is answered
ForwardSettles(k, outcome) ==
  /\ k \in 1..Len(relay.reqs)
  /\ relay.reqs[k].pc = "awaiting"
  /\ relay' = [ relay EXCEPT !.reqs[k] =
       LET res == resJson(forwardedBody(outcome))
       IN [ pc |-> "answered", contacted |-> TRUE, outcome |-> outcome,
            text |-> relay.reqs[k].text, body |-> res.body, status |-> res.status ] ]
  /\ UNCHANGED << chartVars, alerts, clock, nAlerts, plMap, loadError, resolverVars, dragVars,
                  storage, booted, tts, view >>

\* the fetch of the client resolves with the answer to request k, and the
\* alert is logged with delivered = res.ok
FetchResolves(k) ==
  /\ k \in 1..Len(relay.reqs)
  /\ relay.reqs[k].pc = "answered"
  /\ \A j \in 1..Len(alerts) : alerts[j].seq # k
  /\ OnAlert(k, deliveredFlag(IF relay.reqs[k].status \in 200..299 THEN "ok" ELSE "notok"))
  /\ UNCHANGED << chartVars, nAlerts, plMap, loadError, resolverVars, dragVars, sideVars >>

\* the POST of an alert does not reach the relay and fetch throws: the alert
\* is logged with seq 0, as it is none of the requests of the relay
FetchThrows ==
  /\ Len(alerts) < MaxRequests
  /\ OnAlert(0, deliveredFlag("throw"))
  /\ UNCHANGED << chartVars, nAlerts, plMap, loadError, resolverVars, dragVars, sideVars >>

\* the relay starts with the environment its .env gives it
InitRelay ==
  /\ chartAtRest
  /\ alerts = << >>
  /\ clock = 0
  /\ nAlerts = 0
  /\ rIn = AtRest.rIn
  /\ rOut = AtRest.rOut
  /\ storage = AtRest.storage
  /\ booted = AtRest.booted
  /\ \E t, c \in BOOLEAN : relay = [ AtRest.relay EXCEPT !.token = t, !.chat = c ]
  /\ tts = AtRest.tts
  /\ view = AtRest.view

\* The message field of the request body is absent, or a text.  The call to
\* the messaging service ends with its JSON answer (the message was sent, or
\* it was rejected), or with a throw of fetch or of r.json().
NextRelay ==
  \/ \E message \in { None, Some("XRPUSD 1d crossed 0.5") } : PostAlert(message)
  \/ \E k \in 1..MaxRequests : \E outcome \in { "sent", "rejected", "throw" } :
       ForwardSettles(k, outcome)
  \/ \E k \in 1..MaxRequests : FetchResolves(k)
  \/ FetchThrows

SpecRelay == InitRelay /\ [][NextRelay]_vars

---------------------------------------------------------------------------
(* The speech sink: pushAlert and speak of the Dashboard, as the async     *)
(* block of the alerts effect calls them through the onAlert it captured   *)

MaxSpoken == 3

\* speak(text) of the render whose ttsEnabled is `enabled`: the utterance
\* queue of the synthesiser after the call.  The calls all succeed ("ok"),
\* or the construction of the utterance or cancel() throws ("throwEarly"),
\* or speak() throws after cancel() succeeded ("throwLate").
speak(queue, enabled, seq, outcome) ==
  IF ~enabled THEN queue
  ELSE CASE outcome = "ok" -> << seq >>
         [] outcome = "throwLate" -> << >>
         [] OTHER -> queue

\* The alerts effect emits an alert and starts its POST.  The async block
\* holds the onAlert prop of the render the effect ran in, and with it the
\* pushAlert and the ttsEnabled of the Dashboard render that passed it.
EmitAlert ==
  /\ nAlerts < MaxSpoken
  /\ nAlerts' = nAlerts + 1
  /\ tts' = [ tts EXCEPT !.posts = @ \cup { [ seq |-> nAlerts + 1, ttsEnabled |-> tts.enabled ] } ]
  /\ UNCHANGED << chartVars, alerts, clock, plMap, loadError, resolverVars, dragVars,
                  storage, booted, relay, view >>

\* the TTS checkbox
SetTtsEnabled(v) ==
  /\ v # tts.enabled
  /\ tts' = [ tts EXCEPT !.enabled = v ]
  /\ UNCHANGED << chartVars, alerts, clock, nAlerts, plMap, loadError, resolverVars, dragVars,
                  storage, booted, relay, view >>

\* The POST of alert seq settles: onAlert -> pushAlert -> setAlerts, speak.
PostSettles(seq, delivered, outcome) ==
  /\ \E p \in tts.posts :
       /\ p.seq = seq
       /\ LET q == speak(tts.queue, p.ttsEnabled, seq, outcome)
          IN tts' = [ tts EXCEPT
               !.posts = @ \ { p },
               !.queue = q,
               !.last = Some([ seq |-> seq, enabled |-> tts.enabled,
                               spoke |-> p.ttsEnabled /\ outcome = "ok",
                               failed |-> p.ttsEnabled /\ outcome # "ok",
                               before |-> tts.queue, after |-> q ]) ]
  /\ OnAlert(seq, delivered)
  /\ UNCHANGED << chartVars, nAlerts, plMap, loadError, resolverVars, dragVars,
                  storage, booted, relay, view >>

\* the synthesiser finishes the utterance it is speaking
UtteranceEnds ==
  /\ tts.queue # << >>
  /\ tts' = [ tts EXCEPT !.queue = Tail(@) ]
  /\ UNCHANGED << chartVars, alerts, clock, nAlerts, plMap, loadError, resolverVars, dragVars,
                  storage, booted, relay, view >>

InitSpeech ==
  /\ chartAtRest
  /\ alerts = << >>
  /\ clock = 0
  /\ nAlerts = 0
  /\ rIn = AtRest.rIn
  /\ rOut = AtRest.rOut
  /\ storage = AtRest.storage
  /\ booted = AtRest.booted
  /\ relay = AtRest.relay
  /\ \E v \in BOOLEAN : tts = [ AtRest.tts EXCEPT !.enabled = v ]
  /\ view = AtRest.view

NextSpeech ==
  \/ EmitAlert
  \/ \E v \in BOOLEAN : SetTtsEnabled(v)
  \/ \E seq \in 1..MaxSpoken : \E delivered \in BOOLEAN : \E outcome \in { "ok", "throwEarly", "throwLate" } :
       PostSettles(seq, delivered, outcome)
  \/ UtteranceEnds

SpecSpeech == InitSpeech /\ [][NextSpeech]_vars

---------------------------------------------------------------------------
(* The view: manual zoom and pan, and the automatic re-centering of        *)
(* allowAutoCenter.  The chart is created with handleScroll and            *)
(* handleScale on, so the library itself zooms and pans on a wheel, a      *)
(* pressed-mouse move, a pressed move on an axis and a pinch.              *)

MaxTicks == 4

\* autoCenter && (Date.now() - manualZoomRef.current) > 1200, the autoCenter
\* prop being true in every render of the Dashboard
allowAutoCenter(v) == v.now - v.manualZoomRef > Cooldown

\* The user zooms or pans.  The only listener of the application is onWheel
\* on the container, which calls markManualZoom; a pressed-mouse pan is
\* handled by the library alone.
ManualInput(kind) ==
  /\ pan
  /\ view' = [ view EXCEPT
       !.manualZoomRef = IF kind = "wheel" THEN view.now ELSE @,
       !.input = Some([ kind |-> kind, at |-> view.now ]) ]
  /\ UNCHANGED << chartVars, alerts, clock, nAlerts, plMap, loadError, resolverVars, dragVars,
                  storage, booted, relay, tts >>

\* d milliseconds pass
Elapse(d) ==
  /\ view.ticks < MaxTicks
  /\ view' = [ view EXCEPT !.now = @ + d, !.ticks = @ + 1 ]
  /\ UNCHANGED << chartVars, alerts, clock, nAlerts, plMap, loadError, resolverVars, dragVars,
                  storage, booted, relay, tts >>

\* if (seriesRef.current && allowAutoCenter()) chartRef.current.timeScale().fitContent():
\* the statement of load() after setData ("load"), and the auto-center
\* effect after a change of the timeframe ("effect").  Neither writes
\* anything else of the view.
AutoCenter(trigger) ==
  /\ view' = [ view EXCEPT
       !.last = [ trigger |-> trigger, fitted |-> allowAutoCenter(view), at |-> view.now,
                  after |-> view.input ] ]
  /\ UNCHANGED << chartVars, alerts, clock, nAlerts, plMap, loadError, resolverVars, dragVars,
                  storage, booted, relay, tts >>

InitView ==
  /\ chartAtRest
  /\ alerts = << >>
  /\ clock = 0
  /\ nAlerts = 0
  /\ rIn = AtRest.rIn
  /\ rOut = AtRest.rOut
  /\ sideAtRest

\* time passes in steps of half the cooldown and of a millisecond more
NextView ==
  \/ \E kind \in { "wheel", "pan" } : ManualInput(kind)
  \/ \E d \in { Cooldown \div 2, Cooldown \div 2 + 1 } : Elapse(d)
  \/ \E trigger \in { "load", "effect" } : AutoCenter(trigger)

SpecView == InitView /\ [][NextView]_vars

---------------------------------------------------------------------------
(* Properties of the alert evaluator *)

Levels == 1..Len(LevelRatios)

\* the RSI value the evaluator selects
selectedRsi == IF useHaRsi THEN haRsi ELSE rsi

\* C1: an alert for a level is a distinct crossing: while the close stays on
\* the side it was on at the level's last alert, no evaluation emits a
\* further alert for that level.
C1_NoRefireOnSameSide ==
  [][ \A i \in Levels :
        (nAlerts' > nAlerts /\ i \in evalRun'.fired)
          => (alerted[i] = "none" \/ sideOf(lastPrice', fibLines'[i]) # alerted[i]) ]_vars

C3_RsiGate ==
  evalRun.ran =>
    \A i \in Levels :
      LET ln == fibLines[i]
      IN ( /\ ln.enabled /\ ln.alertEnabled /\ ~IsNull(ln.price)
           /\ Len(bars) >= 2
           /\ (bars[Len(bars) - 1].close < Val(ln.price)) # (ToNumber(lastPrice) < Val(ln.price))
           /\ ~IsNull(selectedRsi) /\ ~IsNull(ln.rsiThreshold) )
         => ( i \in evalRun.fired <=>
                \/ ln.rsiOp = ">=" /\ Val(selectedRsi) >= Val(ln.rsiThreshold)
                \/ ln.rsiOp = "<=" /\ Val(selectedRsi) <= Val(ln.rsiThreshold) )

\* an evaluation ran on a crossing of a level gated by "<=" whose RSI is at
\* most the threshold, and emitted the alert
C3_Witness ==
  /\ evalRun.ran /\ Len(bars) >= 2 /\ ~IsNull(selectedRsi)
  /\ \E i \in Levels :
       /\ eligible(fibLines[i]) /\ crossed(fibLines[i], prevCloseOf(bars), lastPrice)
       /\ fibLines[i].rsiOp = "<="
       /\ Val(selectedRsi) <= Val(fibLines[i].rsiThreshold)
       /\ i \in evalRun.fired

\* C4: only levels that are enabled, alert-enabled and priced produce alerts.
C4_OnlyEligibleLevels ==
  \A i \in evalRun.fired :
    fibLines[i].enabled /\ fibLines[i].alertEnabled /\ ~IsNull(fibLines[i].price)

\* an evaluation ran on a crossing of a disabled level whose gate passes,
\* and emitted nothing for it
C4_Witness ==
  /\ evalRun.ran /\ ~IsNull(selectedRsi)
  /\ \E i \in Levels :
       /\ ~fibLines[i].enabled /\ fibLines[i].alertEnabled /\ ~IsNull(fibLines[i].price)
       /\ crossed(fibLines[i], prevCloseOf(bars), lastPrice)
       /\ rsiGate(fibLines[i].rsiOp, Val(selectedRsi), Val(fibLines[i].rsiThreshold))
       /\ i \notin evalRun.fired

\* C5: no alert is emitted while lastPrice is null or the selected RSI is
\* null, whatever the bar buffer holds.
C5_NoAlertWithoutPriceOrRsi ==
  (IsNull(lastPrice) \/ IsNull(selectedRsi)) => evalRun.fired = {}

\* the buffer is filled, lastPrice is still null, and an eligible level has
\* the previous close on the other side of its price than the null price
C5_Witness ==
  /\ evalRun.ran /\ Len(bars) >= 2 /\ IsNull(lastPrice)
  /\ \E i \in Levels :
       eligible(fibLines[i]) /\ crossed(fibLines[i], prevCloseOf(bars), lastPrice)
  /\ evalRun.fired = {}

---------------------------------------------------------------------------
(* Properties of delivery and of the alert log *)

InLog(s) == \E k \in 1..Len(alerts) : alerts[k].seq = s
InFlight(s) == \E a \in pending : a.seq = s

\* C6: every alert the evaluator emitted is eventually appended to the log,
\* exactly once (it is in flight or logged once, never both), and the entry
\* says delivered exactly when POST /alert answered with an OK status.
C6_EventuallyLoggedOnce ==
  /\ \A s \in 1..MaxSeq : InFlight(s) ~> InLog(s)
  /\ [](\A s \in 1..MaxSeq :
          /\ s <= nAlerts <=> (InFlight(s) \/ InLog(s))
          /\ ~(InFlight(s) /\ InLog(s))
          /\ Cardinality({ k \in 1..Len(alerts) : alerts[k].seq = s }) <= 1)
  /\ [][ \A s \in 1..MaxSeq : \A o \in Outcomes :
           DeliverAlert(s, o) =>
             /\ alerts'[1].seq = s
             /\ alerts'[1].delivered = (o = "ok") ]_vars

\* two alerts were emitted and logged, one delivered and one not
C6_Witness ==
  /\ nAlerts >= 2 /\ pending = {}
  /\ \E j, k \in 1..Len(alerts) : alerts[j].delivered /\ ~alerts[k].delivered

\* C7: the log never holds more than 200 entries and is ordered most recent
\* first (ts is the logical time of the push); a push puts the new event first, keeps every earlier entry
\* unmodified one place further down, and on a full log drops exactly the
\* oldest entry.
C7_LogBoundedNewestFirst ==
  /\ [](/\ Len(alerts) <= AlertCap
        /\ \A k \in 1..Len(alerts) - 1 : alerts[k].ts > alerts[k + 1].ts)
  /\ [][ alerts' # alerts =>
           /\ alerts'[1].ts = clock'
           /\ Len(alerts') = IF Len(alerts) < AlertCap THEN Len(alerts) + 1 ELSE AlertCap
           /\ \A k \in 2..Len(alerts') : alerts'[k] = alerts[k - 1] ]_vars

\* a push onto a full log happened: the log is full and the entry of the
\* first event is gone
C7_Witness ==
  /\ Len(alerts) = AlertCap /\ nAlerts > 0
  /\ alerts[AlertCap].ts > 1

---------------------------------------------------------------------------
(* Properties of the resolver and of hydration *)

\* low and range of the window, from the bars
windowLow(b) == CHOOSE x \in { b[i].low : i \in 1..Len(b) } : \A j \in 1..Len(b) : x <= b[j].low
windowHigh(b) == CHOOSE x \in { b[i].high : i \in 1..Len(b) } : \A j \in 1..Len(b) : x >= b[j].high

\* C8: getLinePrice returns the level's price when it is non-null; otherwise
\* low + ratio * range when the window exists; otherwise the last bar's
\* close; and null only when none of the three is available.  The chart
\* takes the window and the last bar from the same buffer, so the window
\* exists exactly when a last bar does.
C8_ResolutionOrder ==
  rOut.done =>
    LET ln == rIn.ln
        b  == rIn.b
    IN /\ ~IsNull(ln.price) => rOut.price = ln.price
       /\ (IsNull(ln.price) /\ Len(b) > 0) =>
            rOut.price = Some(windowLow(b)
                               + (Val(ln.ratio) * (windowHigh(b) - windowLow(b))) \div 1000)
       /\ IsNull(rOut.price) <=> (IsNull(ln.price) /\ Len(b) = 0)

\* a priced level was resolved over a window that would give another price
C8_Witness ==
  /\ rOut.done /\ ~IsNull(rIn.ln.price) /\ Len(rIn.b) > 0
  /\ Some(windowLow(rIn.b) + (Val(rIn.ln.ratio) * (windowHigh(rIn.b) - windowLow(rIn.b))) \div 1000)
       # rIn.ln.price

\* C9: hydration cannot loop: after an external event it issues at most one
\* upstream update, and once the store holds the hydrated levels the lines
\* effect issues no further update.
C9_HydrationFixedPoint ==
  /\ hydrations <= 1
  /\ dirty = {} => ~hydrateUpdates(perSymFib, bars)

\* hydration issued its update and the re-render it caused settled
C9_Witness ==
  /\ hydrations = 1 /\ dirty = {} /\ Len(bars) > 0
  /\ \E i \in Levels : ~IsNull(perSymFib[i].price) /\ ~perSymFib[i].alertEnabled

\* C10: the array hydration hands upstream differs from the array the chart
\* was rendered with only in the price of levels whose price was null: a
\* priced level keeps its price and every level keeps every other field, and
\* a null price stays null while no bar is loaded.
C10_HydrationFillsOnlyNullPrices ==
  [][ timeframe' = timeframe =>
        /\ Len(perSymFib') = Len(fibLines')
        /\ \A i \in 1..Len(fibLines') :
             /\ [ perSymFib'[i] EXCEPT !.price = None ] = [ fibLines'[i] EXCEPT !.price = None ]
             /\ ~IsNull(fibLines'[i].price) => perSymFib'[i].price = fibLines'[i].price
             /\ Len(bars') = 0 => perSymFib'[i].price = fibLines'[i].price ]_vars

\* hydration filled one level and left a user-priced level as it was
C10_Witness ==
  /\ hydrations = 1 /\ dirty # {}
  /\ \E i, j \in Levels :
       /\ IsNull(fibLines[i].price) /\ ~IsNull(perSymFib[i].price)
       /\ fibLines[j].price = Some(2000) /\ perSymFib[j].price = Some(2000)
       /\ getLinePrice([ fibLines[j] EXCEPT !.price = None ], RollingWindow(bars).range,
                       RollingWindow(bars).lo, LastBar(bars)) # Some(2000)

---------------------------------------------------------------------------
(* Properties of level prices under window changes and automatic events *)

\* low + ratio * range of the buffer's window, for a level
derivedPrice(ln, b) ==
  windowLow(b) + (Val(ln.ratio) * (windowHigh(b) - windowLow(b))) \div 1000


\* C11: when the rolling window changes, a level whose price is the value
\* hydrated from its ratio (and no price a user typed) is updated to the new
\* low + ratio * range, while a level whose price was set to a different
\* value is not overwritten.
C11_HydratedPriceFollowsWindow ==
  [][ (RollingWindow(bars') # RollingWindow(bars) /\ Len(bars) > 0 /\ Len(bars') > 0 /\ timeframe' = timeframe) =>
        \A i \in Levels :
          /\ ( /\ perSymFib[i].price = Some(derivedPrice(perSymFib[i], bars))
               /\ perSymFib[i].price \notin { Some(u) : u \in UserPrices } )
               => perSymFib'[i].price = Some(derivedPrice(perSymFib[i], bars'))
          /\ ( /\ ~IsNull(perSymFib[i].price)
               /\ perSymFib[i].price # Some(derivedPrice(perSymFib[i], bars)) )
               => perSymFib'[i].price = perSymFib[i].price ]_vars

\* C11 as amended: when the rolling window changes, every level whose price
\* is non-null keeps it, hydrated or set by the user; a level whose price is
\* null is given the new low + ratio * range, by at most one upstream update.
C11_WindowChangeFillsOnlyMissing ==
  [][ (RollingWindow(bars') # RollingWindow(bars) /\ timeframe' = timeframe) =>
        /\ hydrations' <= 1
        /\ \A i \in Levels :
             /\ ~IsNull(perSymFib[i].price) => perSymFib'[i].price = perSymFib[i].price
             /\ (IsNull(perSymFib[i].price) /\ Len(bars') > 0) =>
                  perSymFib'[i].price = Some(derivedPrice(perSymFib[i], bars')) ]_vars

\* a level holds the price hydrated under an earlier window, which is not
\* the low + ratio * range of the present window
C11_Witness ==
  /\ Len(bars) > 0 /\ dirty = {}
  /\ \E i \in Levels :
       /\ ~perSymFib[i].alertEnabled /\ ~IsNull(perSymFib[i].price)
       /\ perSymFib[i].price \notin { Some(u) : u \in UserPrices }
       /\ perSymFib[i].price # Some(derivedPrice(perSymFib[i], bars))


---------------------------------------------------------------------------
(* Properties of the drag controller *)

\* level i is enabled and its row is known and within the tolerance of row y
nearRow(i, y, ready) ==
  /\ fibLines[i].enabled
  /\ ~IsNull(lineY(fibLines[i], bars, ready))
  /\ Abs(y - Val(lineY(fibLines[i], bars, ready))) <= HIT_TOL_Y

\* C13: a pointer-down in Idle starts a drag if and only if the pointer is
\* within 64 px of the right edge and some enabled level whose row is known
\* lies within 12 px of the pointer's row; the dragged level is then an
\* enabled level of the smallest vertical distance; and otherwise the
\* controller stays Idle and nothing is changed.
C13_PointerDownHitTest ==
  [][ \A dx \in { HIT_RIGHT_WIDTH, HIT_RIGHT_WIDTH + 1 } : \A y \in PointerYs : \A ready \in BOOLEAN :
        (dragging = AtRest.dragging /\ PointerDown(dx, y, ready)) =>
          LET hit == dx <= HIT_RIGHT_WIDTH /\ \E i \in Levels : nearRow(i, y, ready)
          IN /\ dragging'.active <=> hit
             /\ hit => \E i \in Levels :
                         /\ nearRow(i, y, ready)
                         /\ dragging'.id = Some(fibLines[i].id)
                         /\ \A j \in Levels :
                              (fibLines[j].enabled /\ ~IsNull(lineY(fibLines[j], bars, ready)))
                                => Abs(y - Val(lineY(fibLines[i], bars, ready)))
                                     <= Abs(y - Val(lineY(fibLines[j], bars, ready)))
             /\ ~hit => /\ dragging' = AtRest.dragging
                        /\ UNCHANGED << perSymFib, fibLines, plMap, pan, shield, tip,
                                        snapLine >> ]_vars

\* a drag started on the second level, the nearer one, although the first
\* level is enabled and within the tolerance as well
C13_Witness ==
  /\ event.type = "down" /\ dragging.active /\ lastSnap = None /\ ~snapLine
  /\ dragging.id = Some(fibLines[2].id)
  /\ event.dx <= HIT_RIGHT_WIDTH
  /\ nearRow(1, event.y, event.ready) /\ nearRow(2, event.y, event.ready)
  /\ lineY(fibLines[1], bars, TRUE) # lineY(fibLines[2], bars, TRUE)

\* the index of the level being dragged
dragged == CHOOSE i \in Levels : Some(perSymFib[i].id) = dragging.id

\* the snap-candidate prices of a non-empty buffer
candidates(b) ==
  { derivedPrice([ ratio |-> Some(SnapRatios[k]) ], b) : k \in 1..Len(SnapRatios) }
    \cup { b[i].high : i \in 1..Len(b) } \cup { b[i].low : i \in 1..Len(b) }

\* C14: every pointer-move that writes while Dragging writes, into the
\* dragged level, a price of the snap-candidate set (low + r * range for
\* each snap ratio, every high and every low of the window's bars), and no
\* candidate is strictly closer to the raw pointer price; the distance to
\* the raw price is not limited.  The scale converts no row while the
\* buffer is empty, so a move writes only with a non-empty window.
C14_SnapIsNearestCandidate ==
  [][ \A y \in PointerYs :
        (dragging.active /\ PointerMove(y, TRUE)) =>
          LET raw     == Val(yToPrice(y, TRUE))
              written == perSymFib'[dragged].price
          IN /\ Len(bars) > 0
             /\ ~IsNull(written)
             /\ Val(written) \in candidates(bars)
             /\ \A c \in candidates(bars) : Abs(c - raw) >= Abs(Val(written) - raw) ]_vars

\* a move at the raw price 5000 stored 1000, the only candidate price of a
\* flat window
C14_Witness ==
  /\ dragging.active /\ event.type = "move" /\ event.ready /\ event.y = 20
  /\ ~IsNull(lastSnap)
  /\ perSymFib[dragged].price = Some(1000)
  /\ candidates(bars) = { 1000 }

\* C15: drag writes are last-write-wins and none is dropped: when the
\* pointer-up ends a drag, the stored price of the dragged level is the
\* snapped price of the last move that wrote, whether or not a render took
\* place between the moves, and the pointer-up leaves the store as it is.
C15_LastDragWriteWins ==
  [][ (PointerUp /\ dragging.active /\ ~IsNull(lastSnap)) =>
        /\ perSymFib[dragged].price = Some(Val(lastSnap).price)
        /\ perSymFib' = perSymFib ]_vars

\* a drag ended after two moves without a render between them: the store
\* holds the price of the second one, the rendered array still the price
\* from before the drag
C15_Witness ==
  /\ event.type = "up" /\ ~dragging.active /\ dirty # {}
  /\ ~IsNull(lastSnap) /\ Val(lastSnap).nth = 2
  /\ \E i \in Levels :
       /\ perSymFib[i].price = Some(Val(lastSnap).price)
       /\ fibLines[i].price # perSymFib[i].price
       /\ \A j \in Levels \ { i } : perSymFib[j] = fibLines[j]

\* C16: pressed-move panning is off exactly while a drag is active, and so
\* is the drag shield shown; a pointer-up while Dragging returns the
\* controller to Idle, hides the tooltip, the snap marker and the shield
\* and enables panning again, so the next pointer-up ends every drag.
C16_PanSuspendedWhileDragging ==
  [][ /\ pan = ~dragging.active /\ shield = dragging.active
      /\ pan' = ~dragging'.active /\ shield' = dragging'.active
      /\ PointerUp => /\ dragging' = AtRest.dragging
                      /\ ~tip' /\ ~snapLine' /\ ~shield' /\ pan' ]_vars

\* a pointer-up ended a drag that had moved a level
C16_Witness ==
  /\ event.type = "up" /\ dragging = AtRest.dragging /\ ~IsNull(lastSnap)
  /\ pan /\ ~shield /\ ~tip /\ ~snapLine

\* C17: the drag state is Idle or Dragging one level id; Dragging is
\* entered only from Idle and left only to Idle, so the dragged id does
\* not change during a drag; and a pointer-move in Idle writes no level.
C17_DragStateMachine ==
  [][ /\ \/ dragging' = AtRest.dragging
         \/ /\ dragging'.active
            /\ \E i \in Levels : dragging'.id = Some(perSymFib'[i].id)
      /\ (dragging.active /\ dragging'.active) => dragging'.id = dragging.id
      /\ \A y \in PointerYs : \A ready \in BOOLEAN :
           (~dragging.active /\ PointerMove(y, ready)) => perSymFib' = perSymFib ]_vars

\* C18: the animation-frame tick reads the rendered levels and repaints the
\* price lines with their resolved prices; it writes no level and does not
\* touch the drag state, so under every interleaving of ticks, moves and
\* renders the stored price of the dragged level is the price of the last
\* drag write.
C18_TickWritesNoLevel ==
  [][ /\ Tick =>
           /\ perSymFib' = perSymFib /\ fibLines' = fibLines /\ dragging' = dragging
           /\ \A i \in Levels :
                LET w == RollingWindow(bars)
                    price == getLinePrice(fibLines[i], w.range, w.lo, LastBar(bars))
                IN (fibLines[i].id \in DOMAIN plMap' /\ ~IsNull(price)) =>
                     priceLine(plMap', fibLines[i].id) = price
      /\ (dragging'.active /\ ~IsNull(lastSnap')) =>
           perSymFib'[dragged'].price = Some(Val(lastSnap').price) ]_vars

\* a frame was painted during a drag, between a move and its render: the
\* store holds the drag write, the price line still the rendered price
C18_Witness ==
  /\ event.type = "frame" /\ dragging.active /\ ~IsNull(lastSnap) /\ dirty # {}
  /\ perSymFib[dragged].price = Some(Val(lastSnap).price)
  /\ priceLine(plMap, fibLines[dragged].id) = fibLines[dragged].price
  /\ priceLine(plMap, fibLines[dragged].id) # perSymFib[dragged].price

---------------------------------------------------------------------------
(* Properties of the feeds *)

\* C19: after a timeframe switch no response of a historical fetch made for
\* the previous timeframe is applied to the bar buffer, the last price or
\* the RSI: every response that is applied was requested for the timeframe
\* the chart shows.
C19_NoStaleResponseApplied ==
  [][ \A i \in 1..Len(fetches) : \A b \in HistoriesOf(fetches[i]) : \A r \in RsiPairs(b) :
        Load(i, b, r) => fetches[i] = timeframe ]_vars

\* C20: in every reachable state the bar buffer is strictly ascending by
\* time.
C20_BarsStrictlyAscending ==
  \A k \in 1..(Len(bars) - 1) : bars[k].time < bars[k + 1].time

\* C21: a live update whose time is the time of the last bar replaces that
\* bar and leaves the length of the buffer and every earlier bar as they
\* were; a live update of another time appends one bar and leaves every
\* bar of the buffer as it was.
C21_LiveUpdateReplacesOrAppends ==
  [][ \A bar \in { MkBar(f, Buckets[timeframe].open) : f \in FeedBars } : \A r \in RsiPairs(<< 0 >>) :
        WsMessage(bar, r) =>
          LET n == Len(bars)
          IN IF n > 0 /\ bars[n].time = bar.time
               THEN /\ Len(bars') = n
                    /\ bars'[n] = bar
                    /\ \A k \in 1..(n - 1) : bars'[k] = bars[k]
               ELSE /\ Len(bars') = n + 1
                    /\ bars'[n + 1] = bar
                    /\ \A k \in 1..n : bars'[k] = bars[k] ]_vars

\* a live update of the stream's bucket was appended behind a bar of
\* another time, which no history load does, and its close is the last price
C21_Witness ==
  /\ Len(bars) = 2
  /\ bars[2].time = Buckets[timeframe].open
  /\ bars[1].time > bars[2].time
  /\ lastPrice = Some(bars[2].close)
  /\ dirty = {}

\* C22: when the historical fetch fails, the failure is caught and logged,
\* the bar buffer, the last price and both RSI values keep the values they
\* had, and the chart goes on as before: the continuation is over and
\* nothing of the rendered state has changed.
C22_FailedLoadKeepsData ==
  [][ \A i \in 1..Len(fetches) :
        LoadFail(i) =>
          /\ loadError'
          /\ bars' = bars /\ lastPrice' = lastPrice /\ rsi' = rsi /\ haRsi' = haRsi
          /\ fibLines' = fibLines /\ perSymFib' = perSymFib /\ plMap' = plMap
          /\ loadPc' = "idle" ]_vars

\* a reload failed on a chart that had bars, a last price and an RSI
C22_Witness ==
  /\ loadError
  /\ Len(bars) > 0 /\ lastPrice = Some(bars[Len(bars)].close)
  /\ ~IsNull(rsi) /\ ~IsNull(haRsi)
  /\ fetches = << >>

----------------------------------------------------------------------------
(* The RSI source of an evaluation *)

\* C29: the RSI an evaluation compares in the gate and reports in the
\* message is the Heikin-Ashi RSI exactly when the HA-RSI toggle is on as
\* the evaluation runs, and the standard RSI otherwise; the message carries
\* the "(HA)" tag exactly when the Heikin-Ashi RSI was used.
C29_RsiSourceFollowsToggle ==
  [][ \A m \in pending' \ pending :
        LET used == IF useHaRsi' THEN haRsi' ELSE rsi'
        IN /\ m.message.ha = useHaRsi'
           /\ m.message.rsi = used
           /\ ~IsNull(used)
           /\ \E i \in evalRun'.fired :
                /\ fibLines'[i].ratio = m.message.ratio
                /\ rsiGate(fibLines'[i].rsiOp, Val(used), Val(fibLines'[i].rsiThreshold)) ]_vars

\* an alert is in flight that was gated on and reports the Heikin-Ashi RSI,
\* which differs from the standard one and would not have passed the gate
C29_Witness ==
  /\ useHaRsi /\ ~IsNull(rsi) /\ ~IsNull(haRsi) /\ haRsi # rsi
  /\ \E m \in pending :
       /\ m.message.ha /\ m.message.rsi = haRsi
       /\ \E i \in evalRun.fired :
            /\ fibLines[i].ratio = m.message.ratio
            /\ ~rsiGate(fibLines[i].rsiOp, Val(rsi), Val(fibLines[i].rsiThreshold))

\* C30: an enabled level that is unresolved (no explicit price and no bars)
\* has no price line on the chart.
C30_UnresolvedNotDrawn ==
  \A i \in 1..Len(fibLines) :
    ( fibLines[i].enabled /\ IsNull(fibLines[i].price) /\ Len(bars) = 0 )
      => IsNull(priceLine(plMap, fibLines[i].id))

----------------------------------------------------------------------------
(* Properties of the level identities *)

\* C25: no operation on the levels (hydration, drag, field edit, snap,
\* reset to defaults, bulk colour, timeframe change) changes the id, the
\* symbol or the ratio of an existing level; the id of a level is the one
\* makeId gives for its symbol and ratio, makeId gives different ids to
\* different default ratios, and the ids of a symbol's array are pairwise
\* distinct.
C25_LevelIdentityStable ==
  [][ /\ Len(perSymFib') = Len(perSymFib)
      /\ \A i \in 1..Len(perSymFib) :
           /\ perSymFib'[i].id = perSymFib[i].id
           /\ perSymFib'[i].symbol = perSymFib[i].symbol
           /\ perSymFib'[i].ratio = perSymFib[i].ratio
           /\ perSymFib'[i].id = makeId(perSymFib'[i].symbol, Val(perSymFib'[i].ratio))
      /\ \A i, j \in 1..Len(perSymFib') :
           i # j => perSymFib'[i].id # perSymFib'[j].id
      /\ \A a, b \in 1..Len(DEFAULT_RATIOS) :
           a # b => makeId(Symbol, DEFAULT_RATIOS[a]) # makeId(Symbol, DEFAULT_RATIOS[b]) ]_vars

\* after a timeframe change, a bulk colour, an alert switch and a drag of
\* level 1 onto a snap price, the array holds the default levels' ids
C25_Witness ==
  /\ timeframe = "1m"
  /\ perSymFib[1].color = PickedColor /\ perSymFib[2].color = DEFAULT_COLOR
  /\ perSymFib[2].alertEnabled
  /\ ~IsNull(lastSnap) /\ perSymFib[1].price = Some(Val(lastSnap).price)
  /\ perSymFib[1].id = initFibLines(Symbol)[1].id

----------------------------------------------------------------------------
(* Properties of persistence *)

\* C23: the initialisation of the Dashboard never throws, and for every
\* persisted key an entry that is missing, is not valid JSON or has the
\* wrong shape (a symbol list that is not an array, a level store that is
\* not an object, a level entry that is not an array, an overlay entry that
\* is not an object, a timeframe that is not one of the options, a toggle
\* that is not a boolean) gives the documented default.
C23_MalformedEntriesAreAbsent ==
  /\ booted.status # "threw"
  /\ booted.status = "mounted" =>
       /\ storage["symbols"].kind # "array"
            => booted.symbols = ensureHasXRPUSD(defaultSymbols)
       /\ \A s \in Range(booted.symbols) :
            /\ ( \/ storage["perSymFib"].kind # "object"
                 \/ s \notin DOMAIN storage["perSymFib"].val
                 \/ storage["perSymFib"].val[s].kind # "array" )
                 => booted.perSymFib[s] = initFibLines(s)
            /\ ( \/ storage["perSymMeta"].kind # "object"
                 \/ s \notin DOMAIN storage["perSymMeta"].val
                 \/ storage["perSymMeta"].val[s].kind # "object" )
                 => booted.perSymMeta[s] = EntryOf("object", defaultMeta)
       /\ storage["timeframe"] \notin { EntryOf("string", tfOptions[i]) : i \in 1..Len(tfOptions) }
            => booted.timeframe = EntryOf("string", "1d")
       /\ storage["useHA"].kind # "bool" => ~booted.useHeikinAshi
       /\ storage["useHaRsi"].kind # "bool" => ~booted.useHaRsi
       /\ storage["tts"].kind # "bool" => ~booted.ttsEnabled

C28_XrpusdtFirstByDefault ==
  (booted.status = "mounted" /\ storage = AtRest.storage) => booted.symbols[1] = "XRPUSDT"

----------------------------------------------------------------------------
(* Properties of the relay *)

\* C26: a request the relay receives while the token or the channel id is
\* missing is answered with {ok: false, error} and the messaging service is
\* not contacted; a request whose forwarding call threw is answered with
\* {ok: false, error}; the only requests without an answer are those whose
\* forwarding call has not ended.
C26_RelayAnswersFailures ==
  \A k \in 1..Len(relay.reqs) :
    LET rq == relay.reqs[k]
    IN /\ (~relay.token \/ ~relay.chat) =>
            /\ rq.pc = "answered" /\ ~rq.contacted
            /\ ~rq.body.ok /\ "error" \in DOMAIN rq.body
       /\ rq.outcome = "throw" =>
            /\ rq.pc = "answered" /\ ~rq.body.ok /\ "error" \in DOMAIN rq.body
       /\ rq.pc = "awaiting" => (rq.contacted /\ rq.outcome = "none")

\* the relay has a token and no channel id, and answered two requests
\* without a forwarding call
C26_Witness ==
  /\ relay.token /\ ~relay.chat /\ Len(relay.reqs) = 2
  /\ \A k \in 1..2 : relay.reqs[k].pc = "answered" /\ ~relay.reqs[k].contacted
                       /\ relay.reqs[k].body.ok = FALSE

----------------------------------------------------------------------------
(* Properties of the speech sink *)

\* C27: an alert is spoken only if the TTS toggle is on as the alert is
\* appended to the log; when it is spoken, what was in the synthesiser's
\* queue is cancelled and the new utterance is the only one; and whether
\* the speech call failed or not, the alert is at the head of the log.
C27_SpeaksOnlyWhenEnabled ==
  ~IsNull(tts.last) =>
    LET e == Val(tts.last)
    IN /\ e.spoke => e.enabled
       /\ e.spoke => e.after = << e.seq >>
       /\ \E k \in 1..Len(alerts) : alerts[k].seq = e.seq

---------------------------------------------------------------------------
(* Properties of a drag move that cannot be mapped to a price *)

\* C33: if the pointer-to-price mapping fails during a drag move (the price
\* scale is not ready and yields no price), the move is a no-op: no level
\* price is written, the drag state is unchanged and the handler returns
\* without throwing, so that nothing else of the chart or of the store
\* changes either.
C33_UnmappedMoveIsNoOp ==
  [][ \A y \in PointerYs :
        (dragging.active /\ PointerMove(y, FALSE)) =>
          /\ perSymFib' = perSymFib /\ dirty' = dirty /\ hydrations' = hydrations
          /\ dragging' = dragging /\ lastSnap' = lastSnap
          /\ pan' = pan /\ shield' = shield /\ tip' = tip /\ snapLine' = snapLine ]_vars

\* a move of an active drag found the scale unable to convert: the store
\* still equals the rendered array and no drag write was recorded
C33_Witness ==
  /\ event.type = "move" /\ ~event.ready
  /\ dragging.active /\ shield
  /\ IsNull(lastSnap) /\ perSymFib = fibLines /\ dirty = {}

---------------------------------------------------------------------------
(* Properties of the view *)

\* C31: no automatic re-centering (fitContent) of the view happens within
\* the 1.2 s cooldown after a manual zoom or pan input of the user, whether
\* the input is a wheel zoom or a pressed-mouse pan: a call of
\* allowAutoCenter that fitted the view was made more than the cooldown
\* after the last manual input before it.
C31_NoRecenterInCooldown ==
  (view.last.fitted /\ ~IsNull(view.last.after)) =>
    view.last.at - Val(view.last.after).at > Cooldown

---------------------------------------------------------------------------
(* Properties of the rolling window *)

\* C32: whenever the bar buffer changes, the rolling window is recomputed
\* from the last min(120, n) bars only: high is the maximum bar high and low
\* the minimum bar low over exactly those bars, range = high - low >= 0, and
\* a bar older than the last 120 never influences a derived level price or
\* a snap candidate.  So a price the lines effect derives for a level (the
\* hydrated price and the price of its price line), and the price a drag
\* snaps to, are computed from those bars.
C32_WindowIsLast120 ==
  [][ LET n  == Len(bars')
          W  == { i \in 1..n : i > n - WindowN }
          hi == CHOOSE h \in { bars'[i].high : i \in W } : \A i \in W : bars'[i].high <= h
          lo == CHOOSE l \in { bars'[i].low : i \in W } : \A i \in W : l <= bars'[i].low
          derived(ln) == Some(lo + Scale(Val(ln.ratio), hi - lo))
      IN n > 0 =>
           /\ hi - lo >= 0
           /\ RollingWindow(bars') = [ hi |-> Some(hi), lo |-> Some(lo), range |-> Some(hi - lo) ]
           /\ \A i \in 1..Len(fibLines') :
                (event' = event /\ IsNull(fibLines'[i].price) /\ plMap' # plMap) =>
                  /\ perSymFib'[i].price = derived(fibLines'[i])
                  /\ fibLines'[i].enabled => priceLine(plMap', fibLines'[i].id) = derived(fibLines'[i])
           /\ (event'.type = "move" /\ lastSnap' # lastSnap) =>
                Val(lastSnap').price \in
                  { lo + Scale(SnapRatios[k], hi - lo) : k \in 1..Len(SnapRatios) }
                  \cup { bars'[i].high : i \in W } \cup { bars'[i].low : i \in W } ]_vars

\* the buffer holds a bar more than the window, and the bar that has just
\* left the window is higher and lower than every bar in it; the levels
\* were priced and drawn from the window, and a drag snapped to a candidate
C32_Witness ==
  /\ Len(bars) = WindowN + 1
  /\ bars[1].high > Val(RollingWindow(bars).hi) /\ bars[1].low < Val(RollingWindow(bars).lo)
  /\ Val(RollingWindow(bars).range) > 0
  /\ \A i \in 1..Len(perSymFib) :
       /\ perSymFib[i].price =
            Some(Val(RollingWindow(bars).lo)
                 + Scale(Val(perSymFib[i].ratio), Val(RollingWindow(bars).range)))
       /\ priceLine(plMap, perSymFib[i].id) = perSymFib[i].price
  /\ perSymFib = fibLines
  /\ ~IsNull(lastSnap)

---------------------------------------------------------------------------
(* Properties of the Dashboard's operations on the store *)

\* C34: whenever the timeframe changes, the price of every level without
\* alerts enabled is reset to null for every symbol (hydration then derives
\* it again), while every alert-enabled level keeps its price and all other
\* fields of all levels are unchanged.
C34_TimeframeChangeSnapsAllSymbols ==
  [][ ( /\ booted.status = "running" /\ booted'.status = "running"
        /\ booted'.timeframe # booted.timeframe ) =>
        /\ DOMAIN booted'.perSymFib = DOMAIN booted.perSymFib
        /\ \A s \in DOMAIN booted.perSymFib :
             /\ Len(booted'.perSymFib[s]) = Len(booted.perSymFib[s])
             /\ \A i \in 1..Len(booted.perSymFib[s]) :
                  LET old == booted.perSymFib[s][i]
                  IN booted'.perSymFib[s][i] =
                       IF old.alertEnabled THEN old ELSE [ old EXCEPT !.price = None ] ]_vars

\* the timeframe was changed in the first session with two symbols listed:
\* the alert-enabled level of the one has its price, the levels of the
\* other none
C34_Witness ==
  /\ booted.status = "running" /\ booted.session = 0
  /\ booted.timeframe = EntryOf("string", "5m")
  /\ storage["timeframe"] = EntryOf("string", "5m")
  /\ { Symbol, "BTCUSDT" } \subseteq DOMAIN booted.perSymFib
  /\ booted.perSymFib[Symbol][2].alertEnabled
  /\ booted.perSymFib[Symbol][2].price = Some(2000)
  /\ IsNull(booted.perSymFib[Symbol][1].price)
  /\ \A i \in 1..Len(booted.perSymFib["BTCUSDT"]) : IsNull(booted.perSymFib["BTCUSDT"][i].price)

\* C35: the snap action for a symbol resets only that symbol's levels
\* without alerts enabled (price to null, colour to white) and leaves
\* alert-enabled levels and all other symbols unchanged; and when hydration
\* then runs against a non-empty bar buffer, the price of each level without
\* a price becomes low + ratio*range of the rolling window of that buffer.
C35_SnapResetsThenHydrates ==
  [][ \A s \in { Symbol, "BTCUSDT" } :
        /\ SnapSymbol(s) =>
             /\ booted'.symbols = booted.symbols /\ booted'.perSymMeta = booted.perSymMeta
             /\ DOMAIN booted'.perSymFib = DOMAIN booted.perSymFib
             /\ \A t \in DOMAIN booted.perSymFib \ { s } :
                  booted'.perSymFib[t] = booted.perSymFib[t]
             /\ Len(booted'.perSymFib[s]) = Len(booted.perSymFib[s])
             /\ \A i \in 1..Len(booted.perSymFib[s]) :
                  LET old == booted.perSymFib[s][i]
                  IN booted'.perSymFib[s][i] =
                       IF old.alertEnabled THEN old
                       ELSE [ old EXCEPT !.price = None, !.color = DEFAULT_COLOR ]
        /\ \A b \in { h \in Histories : Len(h) = 1 } :
             Hydrate(s, b) =>
               /\ \A t \in DOMAIN booted.perSymFib \ { s } :
                    booted'.perSymFib[t] = booted.perSymFib[t]
               /\ \A i \in 1..Len(booted.perSymFib[s]) :
                    LET old == booted.perSymFib[s][i]
                    IN booted'.perSymFib[s][i] =
                         IF ~IsNull(old.price) THEN old
                         ELSE [ old EXCEPT !.price =
                                  Some(b[1].low + Scale(Val(old.ratio), b[1].high - b[1].low)) ]
    ]_vars

\* after a snap and a hydration against a bar from 1000 to 3000: the level
\* without alert is white and priced from the window, the alert-enabled
\* level kept its colour and its price, the other symbol is as it was
C35_Witness ==
  /\ booted.status = "running" /\ booted.session = 0
  /\ { Symbol, "BTCUSDT" } \subseteq DOMAIN booted.perSymFib
  /\ booted.perSymFib[Symbol][1].price = Some(2000)
  /\ booted.perSymFib[Symbol][1].color = DEFAULT_COLOR
  /\ booted.perSymFib[Symbol][2].alertEnabled
  /\ booted.perSymFib[Symbol][2].color = PickedColor
  /\ booted.perSymFib[Symbol][2].price = Some(2000)
  /\ booted.perSymFib["BTCUSDT"] = autoSnap(initFibLines("BTCUSDT"))

\* C36: after any sequence of add-symbol and remove-symbol operations the
\* symbol list is non-empty, contains XRPUSD, holds only upper-case names
\* and has no duplicates.
C36_SymbolListKeepsXRPUSD ==
  booted.status = "running" =>
    /\ booted.symbols # << >>
    /\ Symbol \in Range(booted.symbols)
    /\ Range(booted.symbols) \cap { "xrpusd", "btcusdt" } = {}
    /\ Cardinality(Range(booted.symbols)) = Len(booted.symbols)

---------------------------------------------------------------------------
(* Properties of the writes of the chart into the store *)

\* C37: a drag update changes only the price of the targeted level: every
\* other level of the symbol, and every other field of the targeted level,
\* keeps the value it holds in the Dashboard store at the moment the write
\* is applied.
C37_WriteKeepsStoreValues ==
  [][ \A y \in PointerYs : \A ready \in BOOLEAN :
        (PointerMove(y, ready) /\ perSymFib' # perSymFib) =>
          \A i \in 1..Len(perSymFib) :
            perSymFib'[i] = IF Some(perSymFib[i].id) = dragging.id
                              THEN [ perSymFib[i] EXCEPT !.price = perSymFib'[i].price ]
                              ELSE perSymFib[i] ]_vars

---------------------------------------------------------------------------
(* Properties of the trigger of the alert evaluator *)

\* C38: alert evaluation is triggered only by a change of the bar buffer or
\* of the last price: an edit of a level's price, alert switch, RSI
\* threshold or RSI operator, a drag move, and the re-render either causes,
\* do not run the alerts effect and emit no alert, whatever the levels and
\* the closes are.
C38_EditsEmitNoAlert ==
  [][ /\ ( \/ \E c \in Edits : FieldChange(c[1], c[2])
           \/ \E y \in PointerYs : \E ready \in BOOLEAN : PointerMove(y, ready)
           \/ Commit )
         => nAlerts' = nAlerts /\ pending' = pending
      /\ ( (\E c \in Edits : FieldChange(c[1], c[2])) \/ Commit )
         => ~evalRun'.ran /\ evalRun'.fired = {} ]_vars

\* after an edit or a drag, a level satisfies the whole alert condition on
\* the bars and the price of the chart, and no alert was emitted for it
C38_Witness ==
  /\ ~evalRun.ran /\ dirty = {} /\ fibLines = perSymFib
  /\ alertsEffect(fibLines, bars, lastPrice, IF useHaRsi THEN haRsi ELSE rsi) # {}
  /\ nAlerts = 0 /\ pending = {} /\ alerts = << >>

---------------------------------------------------------------------------
(* Properties of the price lines *)

\* C39: after every run of the line-drawing step the chart holds a price
\* line for exactly the enabled levels of the rendered level array: one line
\* per enabled level id, and none for a disabled level or for an id that is
\* no longer in the array.
C39_LinesForEnabledLevels ==
  /\ \A i \in 1..Len(fibLines) : fibLines[i].enabled <=> fibLines[i].id \in DOMAIN plMap
  /\ \A id \in DOMAIN plMap : \E i \in 1..Len(fibLines) : fibLines[i].id = id

\* the array stored with the level of ratio 1 was reset to the default
\* ratios and one of its levels was disabled: the chart holds one price
\* line, that of the enabled level
C39_Witness ==
  /\ fibLines[1].id = makeId(Symbol, LevelRatios[1]) /\ fibLines[2].color = PickedColor
  /\ fibLines[1].enabled /\ ~fibLines[2].enabled
  /\ DOMAIN plMap = { fibLines[1].id }
  /\ dirty = {}

---------------------------------------------------------------------------
(* Properties of the status of the relay's answers *)

\* C40: the relay answers every POST /alert it receives with a successful
\* HTTP status, also when the credentials are missing or the forwarding call
\* failed (body ok: false), so that the client logs delivered = true for
\* every alert that reached the relay and delivered = false only for an
\* alert that did not reach it.
C40_RelayAnswersWithSuccessStatus ==
  /\ \A k \in 1..Len(relay.reqs) :
       relay.reqs[k].pc = "answered" =>
         (relay.reqs[k].status >= 200 /\ relay.reqs[k].status <= 299)
  /\ \A j \in 1..Len(alerts) :
       alerts[j].delivered <=> alerts[j].seq \in 1..Len(relay.reqs)

\* the forwarding call of a request threw and the relay answered it with
\* ok: false: the client logged the alert as delivered, and logged another
\* alert, which did not reach the relay, as not delivered
C40_Witness ==
  /\ \E k \in 1..Len(relay.reqs) :
       /\ relay.reqs[k].outcome = "throw" /\ ~relay.reqs[k].body.ok
       /\ \E j \in 1..Len(alerts) : alerts[j].seq = k /\ alerts[j].delivered
  /\ \E j \in 1..Len(alerts) : alerts[j].seq = 0 /\ ~alerts[j].delivered

====
